---- MODULE Spec2Model ----
(***************************************************************************)
(* Entity caches, the guild aggregate and the voice signalling bridge of   *)
(* royal-selfbot.  JavaScript values are modelled as strings: "undef" is   *)
(* undefined (a field the payload does not carry), "null" is null,         *)
(* "true"/"false" are the booleans.                                        *)
(***************************************************************************)
EXTENDS Integers, Sequences, FiniteSets, TLC

VARIABLES
    userCache,    \* UserManager.cache: user id -> instance reference
    userHeap,     \* the User instances, by reference
    userNext,     \* the next reference to hand out
    userFetches,  \* UserManager.fetch calls suspended on their remote read
    uOut,         \* what the last user-cache operation did and returned
    guild,        \* the entry of GuildManager.cache for GuildId
    gOut,         \* what the last guild operation was given
    guildFetches, \* GuildManager.fetch calls suspended on their remote read
    token,        \* Client.token, a string as its characters; <<>> is null
    wsOpen,       \* client.ws.ws.readyState === WebSocket.OPEN
    adapters,     \* VoiceManager.adapters: guild id -> the methods object
    factories,    \* the adapter creators createVoiceDispatch has returned
    handles,      \* the adapter objects those creators have returned
    nextMethods,  \* identity of the next methods object handed to a creator
    creators,     \* Guild._voiceAdapterCreator of each guild: the cached creator
    vOut,         \* what the last bridge operation was given and did
    msgChannel,   \* MessageManager.channel: the owning channel's id, or null
    msgCache,     \* MessageManager.cache: message id -> instance reference
    msgHeap,      \* the Message instances, by reference
    msgNext,      \* the next message reference to hand out
    msgFetches,   \* MessageManager.fetch calls suspended on their remote read
    mOut,         \* what the last message-cache operation did and returned
    client,       \* Client: user, sessionId, guilds.cache and channels.cache
    cOut          \* what the last session operation was given and did

uvars == <<userCache, userHeap, userNext, userFetches, uOut>>
gvars == <<guild, gOut, guildFetches>>
bvars == <<token, wsOpen, adapters, factories, handles, nextMethods, creators, vOut>>
mvars == <<msgChannel, msgCache, msgHeap, msgNext, msgFetches, mOut>>
cvars == <<client, cOut>>
vars == <<userCache, userHeap, userNext, userFetches, uOut, guild, gOut,
          guildFetches,
          token, wsOpen, adapters, factories, handles, nextMethods, creators, vOut,
          msgChannel, msgCache, msgHeap, msgNext, msgFetches, mOut, client, cOut>>

(* ---------------- JavaScript value helpers ---------------- *)

Undef == "undef"
Null == "null"

\* a ?? b
Coalesce(a, b) == IF a \in {Undef, Null} THEN b ELSE a

\* truthiness of a value as tested by if (v) / !v
Truthy(v) == v \notin {Undef, Null, "false", ""}

(* ---------------- bounds ---------------- *)

\* number of User instances that can ever be constructed and cached
MaxRefs == 2
\* number of remote reads that can be suspended at once
MaxPending == 1

(* ---------------- User entity and its cache ---------------- *)

UserIds == {"1"}
Usernames == {"a", "b"}
Discriminators == {"0", "1234"}
Refs == 1..MaxRefs
NoRef == 0

UserPayloads ==
    [id : UserIds, username : Usernames \cup {Undef},
     discriminator : Discriminators \cup {Undef}]

\* the fields of a User before the constructor has patched it
BlankUser(id) == [id |-> id, username |-> Undef, discriminator |-> Undef]
Unallocated == [id |-> Undef, username |-> Undef, discriminator |-> Undef]

\* a merge that forgets what the payload omits
User_patch_clearing(u, data) ==
    [u EXCEPT !.username = data.username,
              !.discriminator = data.discriminator]

\* User._patch: a field is assigned only when the payload carries it
User_patch(u, data) ==
    [u EXCEPT !.username = IF data.username # Undef THEN data.username ELSE @,
              !.discriminator = IF data.discriminator # Undef
                                THEN data.discriminator ELSE @]

\* new User(client, data)
User_new(data) == User_patch(BlankUser(data.id), data)

\* a tag that joins whatever the discriminator is
User_tag_joining(u) ==
    IF u.username = Undef THEN <<Null>>
    ELSE <<u.username, "#", u.discriminator>>

\* User.tag, with "#" joining modelled as a pair
User_tag(u) ==
    IF u.username = Undef THEN <<Null>>
    ELSE IF Truthy(u.discriminator) /\ u.discriminator # "0"
         THEN <<u.username, "#", u.discriminator>>
         ELSE <<u.username>>

\* a resolvable argument: an id, an entity instance (by reference), or a
\* value that is neither
ById(id) == [kind |-> "id", id |-> id, ref |-> 0]
ByInstance(r) == [kind |-> "instance", id |-> Undef, ref |-> r]
NoResolvable == [kind |-> "other", id |-> Undef, ref |-> 0]

\* what a user-cache operation reports: the reference it returned, the
\* cache entry it found, the uncached entity it built, the error it threw,
\* the resolvable it was given and the id it resolved to
UOut(op, id, ret, pre) ==
    [op |-> op, id |-> id, ret |-> ret, pre |-> pre, built |-> Unallocated,
     error |-> 0, cache |-> TRUE, force |-> FALSE, arg |-> NoResolvable,
     rid |-> Undef]

\* BaseManager._add(data, cache = true) on the user cache: merge into the
\* cached instance and return it, else construct and insert a new instance
\* an upsert that constructs a new instance also for a cached id
UserManager_add_fresh(data, op) ==
    /\ userNext <= MaxRefs
    /\ userHeap' = [userHeap EXCEPT ![userNext] = User_new(data)]
    /\ userCache' = [userCache EXCEPT ![data.id] = userNext]
    /\ userNext' = userNext + 1
    /\ uOut' = UOut(op, data.id, userNext, userCache[data.id])

UserManager_add(data, op) ==
    LET r == userCache[data.id] IN
    IF r # NoRef
    THEN /\ userHeap' = [userHeap EXCEPT ![r] = User_patch(@, data)]
         /\ UNCHANGED <<userCache, userNext>>
         /\ uOut' = UOut(op, data.id, r, r)
    ELSE /\ userNext <= MaxRefs
         /\ userHeap' = [userHeap EXCEPT ![userNext] = User_new(data)]
         /\ userCache' = [userCache EXCEPT ![data.id] = userNext]
         /\ userNext' = userNext + 1
         /\ uOut' = UOut(op, data.id, userNext, NoRef)

\* UserManager.resolve of an id: the cached instance, or null
UserManager_resolve(cache, id) == IF id \in DOMAIN cache THEN cache[id] ELSE NoRef

\* a dispatch event upserts a user
UserAdd(data) ==
    /\ UserManager_add(data, "add")
    /\ UNCHANGED <<userFetches, gvars, bvars, mvars, cvars>>

\* the statuses a failed remote read carries
NotFound == 404
FetchStatuses == {404, 500}

\* UserManager.fetch, the cache check before the remote read
UserManager_fetchHit(cache, force, existing) == ~force /\ existing # NoRef

\* a catch block that keeps the entry of a missing user
UserManager_fetchCatch_keeping(status, cache) ==
    IF status = NotFound
    THEN [evict |-> FALSE, ret |-> Null, error |-> 0]
    ELSE [evict |-> FALSE, ret |-> "throw", error |-> status]

\* UserManager.fetch, the catch block: whether the entry is deleted, and
\* whether the call yields null or rethrows
UserManager_fetchCatch(status, cache) ==
    IF status = NotFound
    THEN [evict |-> cache, ret |-> Null, error |-> 0]
    ELSE [evict |-> FALSE, ret |-> "throw", error |-> status]

\* BaseManager._add(data, false): the entity is constructed but not stored
UserManager_addUncached(data) ==
    /\ UNCHANGED <<userCache, userHeap, userNext>>
    /\ uOut' = [UOut("fetchUncached", data.id, NoRef, userCache[data.id])
                   EXCEPT !.built = User_new(data), !.cache = FALSE]

\* UserManager.fetch up to its await: a cache hit returns at once, otherwise
\* the call suspends on the remote read
UserFetchStart(id, cache, force) ==
    /\ UNCHANGED <<userCache, userHeap, userNext, gvars, bvars, mvars, cvars>>
    /\ IF UserManager_fetchHit(cache, force, userCache[id])
       THEN /\ uOut' = [UOut("fetchHit", id, userCache[id], userCache[id])
                           EXCEPT !.cache = cache, !.force = force]
            /\ UNCHANGED userFetches
       ELSE /\ Cardinality(userFetches) < MaxPending
            /\ [id |-> id, cache |-> cache] \notin userFetches
            /\ userFetches' = userFetches \cup {[id |-> id, cache |-> cache]}
            /\ uOut' = [UOut("fetchStart", id, NoRef, userCache[id])
                           EXCEPT !.cache = cache, !.force = force]

\* a resumed fetch that builds and stores a new instance also for a cached id
UserFetchResolve_fresh(t, data) ==
    /\ t \in userFetches
    /\ data.id = t.id
    /\ userFetches' = userFetches \ {t}
    /\ UNCHANGED <<gvars, bvars, mvars, cvars>>
    /\ IF t.cache
       THEN UserManager_add_fresh(data, "fetchResolve")
       ELSE UserManager_addUncached(data)

\* a resumed fetch that stores the entity whatever the cache option was
UserFetchResolve_storing(t, data) ==
    /\ t \in userFetches
    /\ data.id = t.id
    /\ userFetches' = userFetches \ {t}
    /\ UNCHANGED <<gvars, bvars, mvars, cvars>>
    /\ UserManager_add(data, "fetchResolve")

\* the remote read answered with data: _add(data, cache)
UserFetchResolve(t, data) ==
    /\ t \in userFetches
    /\ data.id = t.id
    /\ userFetches' = userFetches \ {t}
    /\ UNCHANGED <<gvars, bvars, mvars, cvars>>
    /\ IF t.cache
       THEN UserManager_add(data, "fetchResolve")
       ELSE UserManager_addUncached(data)

\* the remote read failed: 404 evicts and yields null, anything else rethrows
UserFetchReject(t, status) ==
    LET c == UserManager_fetchCatch(status, t.cache) IN
    /\ t \in userFetches
    /\ userFetches' = userFetches \ {t}
    /\ UNCHANGED <<userHeap, userNext, gvars, bvars, mvars, cvars>>
    /\ userCache' = IF c.evict THEN [userCache EXCEPT ![t.id] = NoRef]
                    ELSE userCache
    /\ uOut' = [UOut(IF c.ret = Null THEN "fetchMiss" ELSE "fetchThrow",
                     t.id, NoRef, userCache[t.id])
                   EXCEPT !.error = c.error, !.cache = t.cache]

\* ids a caller may ask about: the cacheable ones and one never cached
ResolvableUserIds == UserIds \cup {"9"}

\* BaseManager.resolve: an instance is returned as it is, an id is looked up
BaseManager_resolve(cache, x) ==
    IF x.kind = "instance" THEN x.ref
    ELSE IF x.kind = "id" /\ x.id \in DOMAIN cache THEN cache[x.id]
    ELSE NoRef

\* BaseManager._resolveId: the id of an instance, or the id given
BaseManager_resolveId(heap, x) ==
    IF x.kind = "instance" THEN heap[x.ref].id
    ELSE IF x.kind = "id" THEN x.id
    ELSE Null

\* a resolve that only knows ids
UserManager_resolveAny_idsOnly(cache, x) ==
    IF x.kind = "id" THEN UserManager_resolve(cache, x.id) ELSE NoRef

\* UserManager.resolve(userResolvable)
UserManager_resolveAny(cache, x) ==
    LET user == BaseManager_resolve(cache, x) IN
    IF user # NoRef THEN user
    ELSE IF x.kind = "id" /\ UserManager_resolve(cache, x.id) # NoRef
         THEN UserManager_resolve(cache, x.id)
         ELSE NoRef

\* UserManager.resolveId(userResolvable)
UserManager_resolveId(heap, x) ==
    LET id == BaseManager_resolveId(heap, x) IN
    IF Truthy(id) THEN id
    ELSE IF x.kind = "id" THEN x.id
    ELSE Null

\* the resolvables a caller can hold: ids, instances constructed so far,
\* and a value of another type
UserResolvables ==
    {ById(i) : i \in ResolvableUserIds}
        \cup {ByInstance(r) : r \in 1..(userNext - 1)} \cup {NoResolvable}

\* a call of users.resolve
UserResolve(x) ==
    /\ x \in UserResolvables
    /\ uOut' = [UOut("resolve", x.id, UserManager_resolveAny(userCache, x), NoRef)
                   EXCEPT !.arg = x]
    /\ UNCHANGED <<userCache, userHeap, userNext, userFetches, gvars, bvars, mvars, cvars>>

\* a call of users.resolveId
UserResolveId(x) ==
    /\ x \in UserResolvables
    /\ uOut' = [UOut("resolveId", x.id, NoRef, NoRef)
                   EXCEPT !.arg = x, !.rid = UserManager_resolveId(userHeap, x)]
    /\ UNCHANGED <<userCache, userHeap, userNext, userFetches, gvars, bvars, mvars, cvars>>

UInit ==
    /\ userCache = [i \in UserIds |-> NoRef]
    /\ userHeap = [r \in Refs |-> Unallocated]
    /\ userNext = 1
    /\ userFetches = {}
    /\ uOut = UOut("init", Undef, NoRef, NoRef)

(* ---------------- Channel, VoiceState and Guild ---------------- *)

GuildId == "g1"
ChannelIds == {"c1", "c2"}
VoiceUserIds == {"u1", "u2"}
\* Channel.type before any payload carried one (undefined)
NoType == -1

\* an optional array field of a payload: absent, or the array
NoList == [given |-> FALSE, items |-> <<>>]
List(items) == [given |-> TRUE, items |-> items]

NoChannel ==
    [present |-> FALSE, guild_id |-> Undef, type |-> NoType, name |-> Undef,
     typeName |-> Undef]

\* the fixed enumeration of channel types
CHANNEL_TYPES ==
    [GUILD_TEXT |-> 0, DM |-> 1, GUILD_VOICE |-> 2, GROUP_DM |-> 3,
     GUILD_CATEGORY |-> 4, GUILD_NEWS |-> 5, GUILD_STORE |-> 6,
     GUILD_NEWS_THREAD |-> 10, GUILD_PUBLIC_THREAD |-> 11,
     GUILD_PRIVATE_THREAD |-> 12, GUILD_STAGE_VOICE |-> 13,
     GUILD_DIRECTORY |-> 14, GUILD_FORUM |-> 15]

\* Object.keys(CHANNEL_TYPES).find(key => CHANNEL_TYPES[key] === type) || "UNKNOWN"
Channel_typeName(type) ==
    IF \E key \in DOMAIN CHANNEL_TYPES : CHANNEL_TYPES[key] = type
    THEN CHOOSE key \in DOMAIN CHANNEL_TYPES : CHANNEL_TYPES[key] = type
    ELSE "UNKNOWN"

\* a merge that names the type once, when the channel is constructed
Channel_patch_namedOnce(c, data) ==
    LET type == IF data.type # NoType THEN data.type ELSE c.type IN
    [c EXCEPT !.type = type,
              !.name = Coalesce(data.name, @),
              !.typeName = IF @ = Undef THEN Channel_typeName(type) ELSE @]

NoVoiceState == [present |-> FALSE, channelId |-> Undef, selfMute |-> Undef]

\* Channel._patch: type and name keep their value when the payload omits
\* them, the type name is looked up again
Channel_patch(c, data) ==
    LET type == IF data.type # NoType THEN data.type ELSE c.type IN
    [c EXCEPT !.type = type,
              !.name = Coalesce(data.name, @),
              !.typeName = Channel_typeName(type)]

\* ChannelManager._add on a guild's channel cache: merge into the cached
\* channel, else construct one for the guild named by the payload
ChannelManager_add(channels, data) ==
    IF channels[data.id].present
    THEN [channels EXCEPT ![data.id] = Channel_patch(@, data)]
    ELSE [channels EXCEPT ![data.id] =
             Channel_patch([NoChannel EXCEPT !.present = TRUE,
                                             !.guild_id = data.guild_id], data)]

\* a merge that stores the payload's channel id even when it is null
VoiceState_patch_nulling(vs, data) ==
    [vs EXCEPT !.channelId = IF data.channel_id = Undef THEN @ ELSE data.channel_id,
               !.selfMute = Coalesce(data.self_mute, Coalesce(@, "false"))]

\* VoiceState._patch: data.x ?? this.x, the flags defaulting to false
VoiceState_patch(vs, data) ==
    [vs EXCEPT !.channelId = Coalesce(data.channel_id, @),
               !.selfMute = Coalesce(data.self_mute, Coalesce(@, "false"))]

\* new VoiceState(client, data)
VoiceState_new(data) ==
    VoiceState_patch([NoVoiceState EXCEPT !.present = TRUE], data)

\* data.channels.forEach: fill in a missing guild_id, then _add
RECURSIVE AddChannels(_, _, _)
AddChannels(channels, items, gid) ==
    IF items = <<>> THEN channels
    ELSE LET d == Head(items)
             filled == IF Truthy(d.guild_id) THEN d ELSE [d EXCEPT !.guild_id = gid]
         IN AddChannels(ChannelManager_add(channels, filled), Tail(items), gid)

\* data.voice_states.forEach: construct and set(vs.userId, vs)
RECURSIVE SetVoiceStates(_, _)
SetVoiceStates(states, items) ==
    IF items = <<>> THEN states
    ELSE SetVoiceStates(
             [states EXCEPT ![Head(items).user_id] = VoiceState_new(Head(items))],
             Tail(items))

NoGuild ==
    [exists |-> FALSE, id |-> Undef, unavailable |-> "false", name |-> Undef,
     icon |-> Undef, ownerId |-> Undef, memberCount |-> Undef,
     channels |-> [c \in ChannelIds |-> NoChannel],
     voiceStates |-> [u \in VoiceUserIds |-> NoVoiceState]]

\* a merge that empties the channel cache before it adds the listed channels
Guild_patchFields_clearingChannels(g, data) ==
    LET withChannels ==
          IF data.channels.given
          THEN [g EXCEPT !.channels =
                   AddChannels([c \in ChannelIds |-> NoChannel],
                               data.channels.items, g.id)]
          ELSE g
    IN IF data.voice_states.given
       THEN [withChannels EXCEPT !.voiceStates =
                SetVoiceStates([u \in VoiceUserIds |-> NoVoiceState],
                               data.voice_states.items)]
       ELSE withChannels

\* a merge that adds the listed voice states to the ones already stored
Guild_patchFields_keepingVoice(g, data) ==
    LET withChannels ==
          IF data.channels.given
          THEN [g EXCEPT !.channels = AddChannels(@, data.channels.items, g.id)]
          ELSE g
    IN IF data.voice_states.given
       THEN [withChannels EXCEPT !.voiceStates =
                SetVoiceStates(@, data.voice_states.items)]
       ELSE withChannels

\* the part of Guild._patch below the availability gate
Guild_patchFields(g, data) ==
    LET scalars ==
          [g EXCEPT !.name = IF data.name # Undef THEN data.name ELSE @,
                    !.icon = IF data.icon # Undef THEN data.icon ELSE @,
                    !.ownerId = IF data.owner_id # Undef THEN data.owner_id ELSE @,
                    !.memberCount = IF data.member_count # Undef
                                    THEN data.member_count ELSE @]
        withChannels ==
          IF data.channels.given
          THEN [scalars EXCEPT !.channels = AddChannels(@, data.channels.items, g.id)]
          ELSE scalars
    IN IF data.voice_states.given
       THEN [withChannels EXCEPT !.voiceStates =
                SetVoiceStates([u \in VoiceUserIds |-> NoVoiceState],
                               data.voice_states.items)]
       ELSE withChannels

\* a gate that tests only the payload's flag, not the guild's
Guild_patch_ungated(g, data) ==
    IF data.unavailable = "true" THEN [g EXCEPT !.unavailable = "true"]
    ELSE Guild_patchFields([g EXCEPT !.unavailable =
                               IF data.unavailable # Undef THEN data.unavailable ELSE @],
                           data)

\* a gate that keeps merging the payload that turns the guild unavailable
Guild_patch_noreturn(g, data) ==
    LET flips == data.unavailable # Undef /\ data.unavailable # g.unavailable
        flipped == IF flips THEN [g EXCEPT !.unavailable = data.unavailable] ELSE g
    IN IF ~flips /\ Truthy(flipped.unavailable) THEN flipped
       ELSE Guild_patchFields(flipped, data)

\* a gate that never lets the guild back in
Guild_patch_stuck(g, data) ==
    LET flips == data.unavailable # Undef /\ data.unavailable # g.unavailable
        flipped == IF flips /\ ~Truthy(g.unavailable)
                   THEN [g EXCEPT !.unavailable = data.unavailable] ELSE g
    IN IF Truthy(flipped.unavailable) THEN flipped
       ELSE Guild_patchFields(flipped, data)

\* Guild._patch: the availability flag first, then the fields if available
Guild_patch(g, data) ==
    LET flips == data.unavailable # Undef /\ data.unavailable # g.unavailable
        flipped == IF flips THEN [g EXCEPT !.unavailable = data.unavailable] ELSE g
    IN IF flips /\ Truthy(flipped.unavailable) THEN flipped
       ELSE IF Truthy(flipped.unavailable) THEN flipped
       ELSE Guild_patchFields(flipped, data)

\* new Guild(client, data)
Guild_new(data) ==
    LET g == [NoGuild EXCEPT !.exists = TRUE, !.id = data.id,
                             !.unavailable = Coalesce(data.unavailable, "false")]
    IN IF ~Truthy(g.unavailable) THEN Guild_patch(g, data)
       ELSE [g EXCEPT !.name = Undef]

\* an update that keeps the entry of a user who left, with a null channel
\* an update that is dropped while the guild is unavailable
Guild_updateVoiceState_gated(g, vsData) ==
    IF Truthy(g.unavailable) THEN g
    ELSE IF ~Truthy(vsData.user_id) THEN g
    ELSE IF vsData.guild_id # g.id THEN g
    ELSE LET existing == g.voiceStates[vsData.user_id] IN
         IF vsData.channel_id = Null
         THEN [g EXCEPT !.voiceStates[vsData.user_id] = NoVoiceState]
         ELSE IF existing.present
              THEN [g EXCEPT !.voiceStates[vsData.user_id] =
                                VoiceState_patch(@, vsData)]
              ELSE [g EXCEPT !.voiceStates[vsData.user_id] =
                                VoiceState_new(vsData)]

Guild_updateVoiceState_nulling(g, vsData) ==
    IF ~Truthy(vsData.user_id) \/ vsData.guild_id # g.id THEN g
    ELSE IF g.voiceStates[vsData.user_id].present
         THEN [g EXCEPT !.voiceStates[vsData.user_id] =
                           VoiceState_patch_nulling(@, vsData)]
         ELSE [g EXCEPT !.voiceStates[vsData.user_id] = VoiceState_new(vsData)]

\* an update that replaces the entry of a tracked user by a new voice state
Guild_updateVoiceState_replacing(g, vsData) ==
    IF ~Truthy(vsData.user_id) THEN g
    ELSE IF vsData.guild_id # g.id THEN g
    ELSE IF vsData.channel_id = Null
         THEN [g EXCEPT !.voiceStates[vsData.user_id] = NoVoiceState]
         ELSE [g EXCEPT !.voiceStates[vsData.user_id] = VoiceState_new(vsData)]

\* an update that does not compare the event's guild id with the guild's
Guild_updateVoiceState_anyGuild(g, vsData) ==
    IF ~Truthy(vsData.user_id) THEN g
    ELSE LET existing == g.voiceStates[vsData.user_id] IN
         IF vsData.channel_id = Null
         THEN [g EXCEPT !.voiceStates[vsData.user_id] = NoVoiceState]
         ELSE IF existing.present
              THEN [g EXCEPT !.voiceStates[vsData.user_id] =
                                VoiceState_patch(@, vsData)]
              ELSE [g EXCEPT !.voiceStates[vsData.user_id] =
                                VoiceState_new(vsData)]

\* Guild._updateVoiceState: a null channel removes the user's entry, another
\* event merges into the entry or creates it
Guild_updateVoiceState(g, vsData) ==
    IF ~Truthy(vsData.user_id) THEN g
    ELSE IF vsData.guild_id # g.id THEN g
    ELSE LET existing == g.voiceStates[vsData.user_id] IN
         IF vsData.channel_id = Null
         THEN IF existing.present
              THEN [g EXCEPT !.voiceStates[vsData.user_id] = NoVoiceState]
              ELSE g
         ELSE IF existing.present
              THEN [g EXCEPT !.voiceStates[vsData.user_id] =
                                VoiceState_patch(@, vsData)]
              ELSE [g EXCEPT !.voiceStates[vsData.user_id] =
                                VoiceState_new(vsData)]

\* Guild._updateVoiceState: the user ids for which it constructs a VoiceState
\* (the else branch of `if (existing)`), none when it merges in place
Guild_updateVoiceState_made(g, vsData) ==
    IF ~Truthy(vsData.user_id) THEN {}
    ELSE IF vsData.guild_id # g.id THEN {}
    ELSE IF vsData.channel_id = Null THEN {}
    ELSE IF g.voiceStates[vsData.user_id].present THEN {}
    ELSE {vsData.user_id}

\* the optional array fields and the payloads that carry nothing
ChannelA == [id |-> "c1", guild_id |-> Undef, type |-> 0, name |-> "general"]
ChannelB == [id |-> "c2", guild_id |-> GuildId, type |-> 2, name |-> Undef]

VoiceEntry(u, c, m) ==
    [guild_id |-> Undef, user_id |-> u, channel_id |-> c, self_mute |-> m]

NoData ==
    [id |-> GuildId, unavailable |-> Undef, name |-> Undef, icon |-> Undef,
     owner_id |-> Undef, member_count |-> Undef, channels |-> NoList,
     voice_states |-> NoList]
NoEvent == VoiceEntry(Undef, Undef, Undef)

\* a guild resolvable: an id, a Guild instance, or a value that is neither
GuildById(id) == [kind |-> "id", id |-> id, inst |-> NoGuild]
GuildByInstance(g) == [kind |-> "instance", id |-> Undef, inst |-> g]
NoGuildResolvable == [kind |-> "other", id |-> Undef, inst |-> NoGuild]

NoOut ==
    [op |-> "init", pre |-> "none", tracked |-> FALSE, data |-> NoData,
     ev |-> NoEvent, error |-> 0, cache |-> TRUE, force |-> FALSE,
     arg |-> NoGuildResolvable, ret |-> NoGuild, rid |-> Undef, made |-> {}]

\* GuildManager._add(data): merge into the cached guild, else construct it
GuildAdd(data) ==
    /\ guild' = IF guild.exists THEN Guild_patch(guild, data) ELSE Guild_new(data)
    /\ gOut' = [NoOut EXCEPT !.op = "guildAdd",
                             !.pre = IF guild.exists THEN guild.unavailable ELSE "none",
                             !.tracked = \E u \in VoiceUserIds :
                                            guild.voiceStates[u].present,
                             !.data = data]
    /\ UNCHANGED <<guildFetches, uvars, bvars, mvars, cvars>>

\* a VOICE_STATE_UPDATE dispatch reaches the cached guild
VoiceStateUpdate(vsData) ==
    /\ guild.exists
    /\ guild' = Guild_updateVoiceState(guild, vsData)
    /\ gOut' = [NoOut EXCEPT !.op = "voiceUpdate",
                             !.pre = guild.unavailable,
                             !.tracked = IF vsData.user_id \in VoiceUserIds
                                         THEN guild.voiceStates[vsData.user_id].present
                                         ELSE FALSE,
                             !.ev = vsData,
                             !.made = Guild_updateVoiceState_made(guild, vsData)]
    /\ UNCHANGED <<guildFetches, uvars, bvars, mvars, cvars>>

\* GuildManager.fetch, the cache check before the remote read
GuildManager_fetchHit(cache, force, exists) == ~force /\ exists

\* GuildManager.fetch, the catch block: every failure is rethrown
GuildManager_fetchCatch(status, cache) ==
    [evict |-> FALSE, ret |-> "throw", error |-> status]

\* GuildManager.fetch up to its await
GuildFetchStart(cache, force) ==
    /\ UNCHANGED <<guild, uvars, bvars, mvars, cvars>>
    /\ IF GuildManager_fetchHit(cache, force, guild.exists)
       THEN /\ gOut' = [NoOut EXCEPT !.op = "fetchHit", !.pre = guild.unavailable,
                                     !.cache = cache, !.force = force]
            /\ UNCHANGED guildFetches
       ELSE /\ Cardinality(guildFetches) < MaxPending
            /\ [cache |-> cache] \notin guildFetches
            /\ guildFetches' = guildFetches \cup {[cache |-> cache]}
            /\ gOut' = [NoOut EXCEPT !.op = "fetchStart", !.cache = cache,
                                     !.force = force,
                                     !.pre = IF guild.exists THEN guild.unavailable
                                             ELSE "none"]

\* the remote read answered with data: _add(data, cache)
GuildFetchResolve(t, data) ==
    /\ t \in guildFetches
    /\ guildFetches' = guildFetches \ {t}
    /\ guild' = IF ~t.cache THEN guild
                ELSE IF guild.exists THEN Guild_patch(guild, data) ELSE Guild_new(data)
    /\ gOut' = [NoOut EXCEPT !.op = IF t.cache THEN "fetchResolve" ELSE "fetchUncached",
                             !.pre = IF guild.exists THEN guild.unavailable ELSE "none",
                             !.data = data, !.cache = t.cache]
    /\ UNCHANGED <<uvars, bvars, mvars, cvars>>

\* the remote read failed
GuildFetchReject(t, status) ==
    LET c == GuildManager_fetchCatch(status, t.cache) IN
    /\ t \in guildFetches
    /\ guildFetches' = guildFetches \ {t}
    /\ guild' = IF c.evict THEN NoGuild ELSE guild
    /\ gOut' = [NoOut EXCEPT !.op = IF c.ret = Null THEN "fetchMiss" ELSE "fetchThrow",
                             !.pre = IF guild.exists THEN guild.unavailable ELSE "none",
                             !.error = c.error, !.cache = t.cache]
    /\ UNCHANGED <<uvars, bvars, mvars, cvars>>

(* ---------------- inputs ---------------- *)

\* longest voice_states array of a snapshot
MaxVoiceList == 1

\* guild payloads for the merge: the flag, the name, the other scalar fields
\* (carried together or not at all) and the two arrays
GuildMergePayloads ==
    {[id |-> GuildId, unavailable |-> f, name |-> n, icon |-> o[1],
      owner_id |-> o[2], member_count |-> o[3], channels |-> c, voice_states |-> v] :
        f \in {Undef, "true", "false"}, n \in {Undef, "A", "B"},
        o \in {<<Undef, Undef, Undef>>, <<"i1", "o1", "5">>},
        c \in {NoList, List(<<ChannelB, ChannelA>>)},
        v \in {NoList, List(<<VoiceEntry("u1", "c1", Undef)>>)}}

VoiceEntries ==
    {VoiceEntry(u, c, Undef) : u \in VoiceUserIds, c \in {Undef, Null, "c1"}}

RECURSIVE SeqsUpTo(_, _)
SeqsUpTo(S, n) ==
    IF n = 0 THEN {<<>>}
    ELSE LET shorter == SeqsUpTo(S, n - 1)
         IN shorter \cup {Append(q, x) : q \in shorter, x \in S}

\* guild payloads for the voice-state collection: one that only sets the
\* flag, or one that only carries a voice_states array
GuildSnapshotPayloads ==
    {[NoData EXCEPT !.unavailable = f] : f \in {"true", "false"}}
    \cup {[NoData EXCEPT !.voice_states = List(q)] :
             q \in SeqsUpTo(VoiceEntries, MaxVoiceList)}

\* channel payloads: with or without a guild id, a type (one of them not in
\* the enumeration) and a name
ChannelEntries ==
    [id : ChannelIds, guild_id : {Undef, "g2"}, type : {NoType, 0, 7},
     name : {Undef, "general"}]

\* guild payloads for the channel cache: one that only sets the flag, or one
\* that only carries a channels array
GuildChannelPayloads ==
    {[NoData EXCEPT !.unavailable = f] : f \in {"true", "false"}}
    \cup {[NoData EXCEPT !.channels = List(q)] :
             q \in {<<>>, <<ChannelB, ChannelA>>} \cup {<<e>> : e \in ChannelEntries}}

\* VOICE_STATE_UPDATE events
VoiceEvents ==
    [guild_id : {Undef, GuildId, "g2"}, user_id : VoiceUserIds \cup {Undef},
     channel_id : {Undef, Null, "c1", "c2"}, self_mute : {Undef, "true"}]

VoiceEventsFew ==
    {e \in VoiceEvents : /\ e.user_id = "u2" /\ e.guild_id = GuildId
                          /\ e.self_mute = Undef /\ e.channel_id \in {Null, "c2"}}

\* GuildManager.cache.get(id) on the one modelled entry; NoGuild is no entry
GuildCache_get(g, id) == IF g.exists /\ g.id = id THEN g ELSE NoGuild

\* BaseManager.resolve on the guild cache
BaseManager_resolveGuild(g, x) ==
    IF x.kind = "instance" THEN x.inst
    ELSE IF x.kind = "id" THEN GuildCache_get(g, x.id)
    ELSE NoGuild

\* BaseManager._resolveId of a guild resolvable
BaseManager_resolveGuildId(x) ==
    IF x.kind = "instance" THEN x.inst.id
    ELSE IF x.kind = "id" THEN x.id
    ELSE Null

\* GuildManager.resolve(guildResolvable)
GuildManager_resolve(g, x) ==
    LET found == BaseManager_resolveGuild(g, x) IN
    IF found.exists THEN found
    ELSE IF x.kind = "id" /\ GuildCache_get(g, x.id).exists
         THEN GuildCache_get(g, x.id)
         ELSE NoGuild

\* GuildManager.resolveId(guildResolvable)
GuildManager_resolveId(x) ==
    LET id == BaseManager_resolveGuildId(x) IN
    IF Truthy(id) THEN id
    ELSE IF x.kind = "id" THEN x.id
    ELSE Null

\* the guild payloads a remote read answers with
GuildFetchedPayloads ==
    {d \in GuildMergePayloads :
        /\ d.unavailable \in {Undef, "true"}
        /\ d.channels = NoList /\ d.voice_states = NoList}

\* the guild resolvables a caller can hold: ids, the cached instance, an
\* instance that was built without being cached, a value of another type
GuildResolvables ==
    {GuildById(i) : i \in {GuildId, "g9"}}
        \cup {GuildByInstance(g) : g \in {guild} \ {NoGuild}}
        \cup {GuildByInstance(Guild_new(d)) :
                 d \in {e \in GuildFetchedPayloads :
                           e.unavailable = Undef /\ e.icon = Undef /\ e.name = "B"}}
        \cup {NoGuildResolvable}

\* a call of guilds.resolve
GuildResolve(x) ==
    /\ x \in GuildResolvables
    /\ gOut' = [NoOut EXCEPT !.op = "resolve", !.arg = x,
                             !.ret = GuildManager_resolve(guild, x)]
    /\ UNCHANGED <<guild, guildFetches, uvars, bvars, mvars, cvars>>

\* a call of guilds.resolveId
GuildResolveId(x) ==
    /\ x \in GuildResolvables
    /\ gOut' = [NoOut EXCEPT !.op = "resolveId", !.arg = x,
                             !.rid = GuildManager_resolveId(x)]
    /\ UNCHANGED <<guild, guildFetches, uvars, bvars, mvars, cvars>>

GInit ==
    /\ guild = NoGuild
    /\ gOut = NoOut
    /\ guildFetches = {}

(* ---------------- voice signalling bridge ---------------- *)

\* most adapter creators and most methods objects in one behaviour
MaxFactories == 2
MaxMethods == 2

NoToken == <<>>
BotPrefix == <<"B", "o", "t", " ">>
BotToken == <<"B", "o", "t", " ", "k">>
UserToken == <<"u", "k">>
BareBotToken == <<"B", "o", "t">>
Tokens == {BotToken, UserToken, BareBotToken}

\* String.prototype.startsWith
StartsWith(s, p) == Len(s) >= Len(p) /\ SubSeq(s, 1, Len(p)) = p

\* a gate that only asks whether a token is set
IsUserToken_anyToken(tok) == tok = NoToken

\* the gate of createVoiceDispatch
IsUserToken(tok) == tok = NoToken \/ ~StartsWith(tok, BotPrefix)

BridgeGuilds == {"A", "B"}

\* a methods object: its identity and which callbacks are functions
NoMethods == [id |-> 0, onVoiceStateUpdate |-> FALSE, onVoiceServerUpdate |-> FALSE]
MethodShapes ==
    {[onVoiceStateUpdate |-> TRUE, onVoiceServerUpdate |-> TRUE],
     [onVoiceStateUpdate |-> FALSE, onVoiceServerUpdate |-> TRUE]}
Methods(id, shape) ==
    [id |-> id, onVoiceStateUpdate |-> shape.onVoiceStateUpdate,
     onVoiceServerUpdate |-> shape.onVoiceServerUpdate]

\* Map.get on the adapters table
AdapterOf(table, guildId) ==
    IF guildId \in DOMAIN table THEN table[guildId] ELSE NoMethods

VoicePayloads ==
    [guild_id : {"A", Undef}, channel_id : {Null, "c1"},
     self_mute : {"true", "false"}, self_deaf : {"false"}]
NoPayload ==
    [guild_id |-> Undef, channel_id |-> Undef, self_mute |-> Undef,
     self_deaf |-> Undef]

\* inbound VOICE_STATE_UPDATE / VOICE_SERVER_UPDATE data
\* body stands for the rest of the data (session id, endpoint, ...)
BridgeEvents == [guild_id : {Undef, Null, "A", "B", "C"}, body : {"d1", "d2"}]
NoBridgeEvent == [guild_id |-> Undef, body |-> Undef]

\* a creator that registers only for a guild that has no entry
Creator_call_keepingFirst(f, methods, table) ==
    IF f.kind = "real" /\ table[f.guild].id = 0
    THEN [table EXCEPT ![f.guild] = methods] ELSE table

\* a creator that registers whatever it is given, stub or not
Creator_call_registering(f, methods, table) ==
    [table EXCEPT ![f.guild] = methods]

\* the table after the creator f is called with a methods object
Creator_call(f, methods, table) ==
    IF f.kind = "real" THEN [table EXCEPT ![f.guild] = methods] ELSE table

\* a sendPayload that never looks at the socket
Adapter_sendPayload_unchecked(a, payload, open) ==
    IF a.kind = "stub"
    THEN [ret |-> "false", sent |-> <<>>, payload |-> payload]
    ELSE LET modifiedPayload ==
                 [payload EXCEPT !.self_mute = Null, !.self_deaf = Null]
         IN  [ret |-> "true", sent |-> <<[op |-> 4, d |-> modifiedPayload]>>,
              payload |-> payload]

\* a sendPayload that nulls the fields of the caller's own object
Adapter_sendPayload_inPlace(a, payload, open) ==
    IF a.kind = "stub"
    THEN [ret |-> "false", sent |-> <<>>, payload |-> payload]
    ELSE IF open
         THEN LET modifiedPayload ==
                      [payload EXCEPT !.self_mute = Null, !.self_deaf = Null]
              IN  [ret |-> "true", sent |-> <<[op |-> 4, d |-> modifiedPayload]>>,
                   payload |-> modifiedPayload]
         ELSE [ret |-> "false", sent |-> <<>>, payload |-> payload]

\* sendPayload of an adapter object: what it returns, what it hands to
\* wsManager.send, and the caller's payload object afterwards
Adapter_sendPayload(a, payload, open) ==
    IF a.kind = "stub"
    THEN [ret |-> "false", sent |-> <<>>, payload |-> payload]
    ELSE IF open
         THEN LET modifiedPayload ==
                      [payload EXCEPT !.self_mute = Null, !.self_deaf = Null]
              IN  [ret |-> "true", sent |-> <<[op |-> 4, d |-> modifiedPayload]>>,
                   payload |-> payload]
         ELSE [ret |-> "false", sent |-> <<>>, payload |-> payload]

\* a destroy that leaves the table alone
Adapter_destroy_keeping(a, table) == table

\* the table after destroy of an adapter object
Adapter_destroy(a, table) ==
    IF a.kind = "real" THEN [table EXCEPT ![a.guild] = NoMethods] ELSE table

RECURSIVE CallAll(_, _, _, _)
CallAll(table, guilds, callback, data) ==
    IF guilds = {} THEN <<>>
    ELSE LET g == CHOOSE x \in guilds : TRUE
             rest == CallAll(table, guilds \ {g}, callback, data)
         IN  IF table[g].id # 0 /\ table[g][callback]
             THEN <<[methods |-> table[g].id, callback |-> callback, data |-> data]>> \o rest
             ELSE rest

\* a dispatch that falls back on every registered methods object when the
\* event names no guild or a guild without an entry
VoiceManager_dispatch_fallback(table, callback, data) ==
    LET adapter == AdapterOf(table, data.guild_id)
    IN  IF Truthy(data.guild_id) /\ adapter.id # 0
        THEN IF adapter[callback]
             THEN <<[methods |-> adapter.id, callback |-> callback, data |-> data]>>
             ELSE <<>>
        ELSE CallAll(table, DOMAIN table, callback, data)

\* a dispatch that calls the callback a second time
VoiceManager_dispatch_twice(table, callback, data) ==
    IF ~Truthy(data.guild_id) THEN <<>>
    ELSE LET adapter == AdapterOf(table, data.guild_id)
             call == [methods |-> adapter.id, callback |-> callback, data |-> data]
         IN  IF adapter.id # 0 /\ adapter[callback] THEN <<call, call>> ELSE <<>>

\* a dispatch that calls every registered methods object
VoiceManager_dispatch_broadcast(table, callback, data) ==
    IF ~Truthy(data.guild_id) THEN <<>>
    ELSE CallAll(table, DOMAIN table, callback, data)

\* onVoiceStateUpdate / onVoiceServerUpdate: the callbacks invoked, in order
VoiceManager_dispatch(table, callback, data) ==
    IF ~Truthy(data.guild_id) THEN <<>>
    ELSE LET adapter == AdapterOf(table, data.guild_id)
         IN  IF adapter.id # 0 /\ adapter[callback]
             THEN <<[methods |-> adapter.id, callback |-> callback, data |-> data]>>
             ELSE <<>>

NoHandle == [kind |-> "none", guild |-> Undef, credential |-> NoToken, methods |-> 0]
NoBridgeOut ==
    [op |-> "init", kind |-> "none", guild |-> Undef, handle |-> NoHandle,
     ret |-> Undef, given |-> NoPayload, payload |-> NoPayload, sent |-> <<>>,
     data |-> NoBridgeEvent, invoked |-> <<>>]

\* Client.login(token): the token is stored before the gateway connects
Login(tok) ==
    /\ tok # NoToken
    /\ token' = tok
    /\ vOut' = [NoBridgeOut EXCEPT !.op = "login"]
    /\ UNCHANGED <<wsOpen, adapters, factories, handles, nextMethods, creators, uvars, gvars, mvars, cvars>>

\* the gateway socket opens or closes
SocketChanges ==
    /\ wsOpen' = ~wsOpen
    /\ vOut' = [NoBridgeOut EXCEPT !.op = "socket"]
    /\ UNCHANGED <<token, adapters, factories, handles, nextMethods, creators, uvars, gvars, mvars, cvars>>

\* VoiceManager.createVoiceDispatch(guildId)
CreateVoiceDispatch(guildId) ==
    LET f == [kind |-> IF IsUserToken(token) THEN "stub" ELSE "real",
              guild |-> guildId, credential |-> token]
    IN  /\ Cardinality(factories \cup {f}) <= MaxFactories
        /\ factories' = factories \cup {f}
        /\ vOut' = [NoBridgeOut EXCEPT !.op = "create", !.kind = f.kind,
                                       !.guild = guildId]
        /\ UNCHANGED <<token, wsOpen, adapters, handles, nextMethods, creators, uvars, gvars, mvars, cvars>>

\* the voice library calls a creator with its methods object
CreatorCall(f, shape) ==
    /\ f \in factories
    /\ nextMethods <= MaxMethods
    /\ LET methods == Methods(nextMethods, shape)
           a == [kind |-> f.kind, guild |-> f.guild,
                 credential |-> f.credential, methods |-> methods.id]
       IN  /\ adapters' = Creator_call(f, methods, adapters)
           /\ handles' = handles \cup {a}
           /\ vOut' = [NoBridgeOut EXCEPT !.op = "call", !.kind = f.kind,
                                          !.guild = f.guild, !.handle = a,
                                          !.ret = "adapter"]
    /\ nextMethods' = nextMethods + 1
    /\ UNCHANGED <<token, wsOpen, factories, creators, uvars, gvars, mvars, cvars>>

\* the voice library calls sendPayload of an adapter object
\* a sendPayload that transmits only while its adapter is the registered one
SendPayload_registered(a, payload) ==
    /\ a \in handles
    /\ LET r == Adapter_sendPayload(a, payload,
                                    wsOpen /\ adapters[a.guild].id = a.methods)
       IN  vOut' = [NoBridgeOut EXCEPT !.op = "send", !.kind = a.kind,
                                       !.guild = a.guild, !.handle = a,
                                       !.ret = r.ret, !.given = payload,
                                       !.payload = r.payload, !.sent = r.sent]
    /\ UNCHANGED <<token, wsOpen, adapters, factories, handles, nextMethods, creators, uvars, gvars, mvars, cvars>>

SendPayload(a, payload) ==
    /\ a \in handles
    /\ LET r == Adapter_sendPayload(a, payload, wsOpen)
       IN  vOut' = [NoBridgeOut EXCEPT !.op = "send", !.kind = a.kind,
                                       !.guild = a.guild, !.handle = a,
                                       !.ret = r.ret, !.given = payload,
                                       !.payload = r.payload, !.sent = r.sent]
    /\ UNCHANGED <<token, wsOpen, adapters, factories, handles, nextMethods, creators, uvars, gvars, mvars, cvars>>

\* the voice library calls destroy of an adapter object
Destroy(a) ==
    /\ a \in handles
    /\ adapters' = Adapter_destroy(a, adapters)
    /\ vOut' = [NoBridgeOut EXCEPT !.op = "destroy", !.kind = a.kind,
                                   !.guild = a.guild, !.handle = a]
    /\ UNCHANGED <<token, wsOpen, factories, handles, nextMethods, creators, uvars, gvars, mvars, cvars>>

\* VoiceManager.onVoiceStateUpdate(data)
OnVoiceStateUpdate(data) ==
    /\ vOut' = [NoBridgeOut EXCEPT
                  !.op = "onVoiceStateUpdate", !.data = data,
                  !.invoked = VoiceManager_dispatch(adapters, "onVoiceStateUpdate", data)]
    /\ UNCHANGED <<token, wsOpen, adapters, factories, handles, nextMethods, creators, uvars, gvars, mvars, cvars>>

\* VoiceManager.onVoiceServerUpdate(data)
OnVoiceServerUpdate(data) ==
    /\ vOut' = [NoBridgeOut EXCEPT
                  !.op = "onVoiceServerUpdate", !.data = data,
                  !.invoked = VoiceManager_dispatch(adapters, "onVoiceServerUpdate", data)]
    /\ UNCHANGED <<token, wsOpen, adapters, factories, handles, nextMethods, creators, uvars, gvars, mvars, cvars>>

\* client.voice of the client object handed to the helper: the manager, nothing,
\* or an object that is not a VoiceManager
ClientVoices == {"VoiceManager", Undef, "other"}
NoFactory == [kind |-> "none", guild |-> Undef, credential |-> NoToken]

\* a guard that only looks for a value
Helper_unattached_anyObject(voice) == ~Truthy(voice)

\* createVoiceDispatch(client, guildId), its guard
Helper_unattached(voice) == ~Truthy(voice) \/ voice # "VoiceManager"

\* createVoiceDispatch(client, guildId): throws, or asks the manager
HelperCreateVoiceDispatch(voice, guildId) ==
    LET f == [kind |-> IF IsUserToken(token) THEN "stub" ELSE "real",
              guild |-> guildId, credential |-> token]
    IN  /\ UNCHANGED <<token, wsOpen, adapters, handles, nextMethods, creators,
                       uvars, gvars, mvars, cvars>>
        /\ IF Helper_unattached(voice)
           THEN /\ UNCHANGED factories
                /\ vOut' = [NoBridgeOut EXCEPT !.op = "helper", !.guild = guildId,
                                               !.ret = "Error"]
           ELSE /\ Cardinality(factories \cup {f}) <= MaxFactories
                /\ factories' = factories \cup {f}
                /\ vOut' = [NoBridgeOut EXCEPT !.op = "helper", !.kind = f.kind,
                                               !.guild = guildId, !.ret = "creator"]

\* Guild.voiceAdapterCreator: the cached creator, else the helper's; when the
\* helper throws, a creator that throws when called, which is not cached
GuildVoiceAdapterCreator(voice, guildId) ==
    LET f == [kind |-> IF IsUserToken(token) THEN "stub" ELSE "real",
              guild |-> guildId, credential |-> token]
    IN  /\ UNCHANGED <<token, wsOpen, adapters, handles, nextMethods, uvars, gvars, mvars, cvars>>
        /\ IF creators[guildId] # NoFactory
           THEN /\ UNCHANGED <<factories, creators>>
                /\ vOut' = [NoBridgeOut EXCEPT !.op = "getter", !.guild = guildId,
                                               !.kind = creators[guildId].kind,
                                               !.ret = "creator"]
           ELSE IF Helper_unattached(voice)
           THEN /\ UNCHANGED <<factories, creators>>
                /\ vOut' = [NoBridgeOut EXCEPT !.op = "getter", !.guild = guildId,
                                               !.ret = "dummy"]
           ELSE /\ Cardinality(factories \cup {f}) <= MaxFactories
                /\ factories' = factories \cup {f}
                /\ creators' = [creators EXCEPT ![guildId] = f]
                /\ vOut' = [NoBridgeOut EXCEPT !.op = "getter", !.kind = f.kind,
                                               !.guild = guildId, !.ret = "creator"]

BInit ==
    /\ token = NoToken
    /\ wsOpen = FALSE
    /\ adapters = [g \in BridgeGuilds |-> NoMethods]
    /\ factories = {}
    /\ handles = {}
    /\ nextMethods = 1
    /\ creators = [g \in BridgeGuilds |-> NoFactory]
    /\ vOut = NoBridgeOut


(* ---------------- message cache ---------------- *)

\* most Message instances in one behaviour
MaxMsgRefs == 2

MessageIds == {"m1"}
Contents == {"x", "y"}
MsgRefs == 1..MaxMsgRefs
MessageChannel == "c1"

\* data.author: a user payload, or absent
NoAuthor == [id |-> Undef, username |-> Undef, discriminator |-> Undef]
AuthorPayload == [id |-> "1", username |-> "a", discriminator |-> Undef]
MessagePayloads ==
    [id : MessageIds, content : Contents \cup {Undef, Null},
     author : {NoAuthor, AuthorPayload}, channel_id : {Undef, MessageChannel}]

\* the fields of a Message before the constructor has patched it
BlankMessage(id) ==
    [id |-> id, content |-> Undef, author |-> NoRef, channelId |-> Undef]
UnallocatedMessage ==
    [id |-> Undef, content |-> Undef, author |-> NoRef, channelId |-> Undef]

NoError == [name |-> "none", status |-> 0]
TypeError == [name |-> "TypeError", status |-> 0]
HttpError(status) == [name |-> "HttpError", status |-> status]

\* the user cache as one value, and client.users._add(data) on it
Users == [cache |-> userCache, heap |-> userHeap, next |-> userNext]
Users_add(users, data) ==
    LET r == users.cache[data.id] IN
    IF r # NoRef
    THEN [users |-> [users EXCEPT !.heap[r] = User_patch(@, data)], ref |-> r]
    ELSE [users |-> [cache |-> [users.cache EXCEPT ![data.id] = users.next],
                     heap |-> [users.heap EXCEPT ![users.next] = User_new(data)],
                     next |-> users.next + 1],
          ref |-> users.next]

\* a merge that clears the content a payload omits
Message_patch_clearing(m, data, channel, users) ==
    LET a == IF data.author # NoAuthor THEN Users_add(users, data.author)
             ELSE [users |-> users, ref |-> m.author]
        throws == data.channel_id \in {Undef, Null} /\ channel = Null
    IN  [msg |-> [m EXCEPT !.content = Coalesce(data.content, ""),
                           !.author = a.ref,
                           !.channelId = IF throws THEN @
                                         ELSE Coalesce(data.channel_id, channel)],
         users |-> a.users,
         error |-> IF throws THEN TypeError ELSE NoError]

\* Message._patch on a manager whose channel is `channel`: the message, the
\* user cache after the author's upsert, and the error reading
\* this.channel.id raises when the channel is null
Message_patch(m, data, channel, users) ==
    LET a == IF data.author # NoAuthor THEN Users_add(users, data.author)
             ELSE [users |-> users, ref |-> m.author]
        throws == data.channel_id \in {Undef, Null} /\ channel = Null
    IN  [msg |-> [m EXCEPT !.content = Coalesce(data.content, Coalesce(@, "")),
                           !.author = a.ref,
                           !.channelId = IF throws THEN @
                                         ELSE Coalesce(data.channel_id, channel)],
         users |-> a.users,
         error |-> IF throws THEN TypeError ELSE NoError]

\* new Message(client, data, channel)
Message_new(data, channel, users) ==
    Message_patch(BlankMessage(data.id), data, channel, users)

\* what a message-cache operation reports; content is data.content of the
\* payload it merged
MOut(op, id, ret, pre) ==
    [op |-> op, id |-> id, ret |-> ret, pre |-> pre,
     built |-> UnallocatedMessage, error |-> NoError, cache |-> TRUE,
     force |-> FALSE, content |-> Undef]

\* the author's upsert needs a free User reference when the author is new
AuthorFits(data) ==
    data.author # NoAuthor /\ userCache[data.author.id] = NoRef
        => userNext <= MaxRefs

\* BaseManager._add(data, cache) on the message cache
MessageManager_add(data, cache, op) ==
    LET r == msgCache[data.id]
        merged == Message_patch(msgHeap[r], data, msgChannel, Users)
        made == Message_new(data, msgChannel, Users)
        Out(ret, pre) == [MOut(op, data.id, ret, pre) EXCEPT !.content = data.content]
    IN  /\ AuthorFits(data)
        /\ IF cache /\ r # NoRef
           THEN /\ msgHeap' = [msgHeap EXCEPT ![r] = merged.msg]
                /\ UNCHANGED <<msgCache, msgNext>>
                /\ userCache' = merged.users.cache
                /\ userHeap' = merged.users.heap
                /\ userNext' = merged.users.next
                /\ mOut' = [Out( IF merged.error = NoError THEN r ELSE NoRef, r)
                               EXCEPT !.error = merged.error]
           ELSE /\ userCache' = made.users.cache
                /\ userHeap' = made.users.heap
                /\ userNext' = made.users.next
                /\ IF made.error # NoError
                   THEN /\ UNCHANGED <<msgCache, msgHeap, msgNext>>
                        /\ mOut' = [Out( NoRef, r) EXCEPT !.error = made.error,
                                                                       !.cache = cache]
                   ELSE IF cache
                   THEN /\ msgNext <= MaxMsgRefs
                        /\ msgHeap' = [msgHeap EXCEPT ![msgNext] = made.msg]
                        /\ msgCache' = [msgCache EXCEPT ![data.id] = msgNext]
                        /\ msgNext' = msgNext + 1
                        /\ mOut' = Out( msgNext, NoRef)
                   ELSE /\ UNCHANGED <<msgCache, msgHeap, msgNext>>
                        /\ mOut' = [Out( NoRef, r) EXCEPT !.built = made.msg,
                                                                       !.cache = FALSE]

\* MessageManager.resolve of an id: the cached instance, or null
MessageManager_resolve(cache, id) == IF id \in DOMAIN cache THEN cache[id] ELSE NoRef

\* a MESSAGE_CREATE / MESSAGE_UPDATE dispatch upserts a message
MessageAdd(data) ==
    /\ MessageManager_add(data, TRUE, "add")
    /\ UNCHANGED <<msgChannel, msgFetches, userFetches, uOut, gvars, bvars, cvars>>

\* MessageManager.fetch, the cache check before the remote read
MessageManager_fetchHit(cache, force, existing) == ~force /\ existing # NoRef

\* a catch block that takes every failure for a missing message
MessageManager_fetchCatch_allMissing(status, cache) ==
    [evict |-> cache, ret |-> Null, error |-> NoError]

\* MessageManager.fetch, the catch block
MessageManager_fetchCatch(status, cache) ==
    IF status = NotFound
    THEN [evict |-> cache, ret |-> Null, error |-> NoError]
    ELSE [evict |-> FALSE, ret |-> "throw", error |-> HttpError(status)]

\* MessageManager.fetch up to its await; building the request path reads
\* this.channel.id
MessageFetchStart(id, cache, force) ==
    /\ UNCHANGED <<msgChannel, msgCache, msgHeap, msgNext, uvars, gvars, bvars, cvars>>
    /\ IF MessageManager_fetchHit(cache, force, msgCache[id])
       THEN /\ mOut' = [MOut("fetchHit", id, msgCache[id], msgCache[id])
                           EXCEPT !.cache = cache, !.force = force]
            /\ UNCHANGED msgFetches
       ELSE IF msgChannel = Null
       THEN /\ mOut' = [MOut("fetchThrow", id, NoRef, msgCache[id])
                           EXCEPT !.cache = cache, !.force = force,
                                  !.error = TypeError]
            /\ UNCHANGED msgFetches
       ELSE /\ Cardinality(msgFetches) < MaxPending
            /\ [id |-> id, cache |-> cache] \notin msgFetches
            /\ msgFetches' = msgFetches \cup {[id |-> id, cache |-> cache]}
            /\ mOut' = [MOut("fetchStart", id, NoRef, msgCache[id])
                           EXCEPT !.cache = cache, !.force = force]

\* the remote read answered with data: _add(data, cache)
MessageFetchResolve(t, data) ==
    /\ t \in msgFetches
    /\ data.id = t.id
    /\ msgFetches' = msgFetches \ {t}
    /\ MessageManager_add(data, t.cache, "fetchResolve")
    /\ UNCHANGED <<msgChannel, userFetches, uOut, gvars, bvars, cvars>>

\* the remote read failed
MessageFetchReject(t, status) ==
    LET c == MessageManager_fetchCatch(status, t.cache) IN
    /\ t \in msgFetches
    /\ msgFetches' = msgFetches \ {t}
    /\ msgCache' = IF c.evict THEN [msgCache EXCEPT ![t.id] = NoRef] ELSE msgCache
    /\ mOut' = [MOut(IF c.ret = Null THEN "fetchMiss" ELSE "fetchThrow",
                     t.id, NoRef, msgCache[t.id])
                   EXCEPT !.error = c.error, !.cache = t.cache]
    /\ UNCHANGED <<msgChannel, msgHeap, msgNext, uvars, gvars, bvars, cvars>>

MInit ==
    /\ msgChannel = MessageChannel
    /\ msgCache = [i \in MessageIds |-> NoRef]
    /\ msgHeap = [r \in MsgRefs |-> UnallocatedMessage]
    /\ msgNext = 1
    /\ msgFetches = {}
    /\ mOut = MOut("init", Undef, NoRef, NoRef)

\* client.messages, the session-level manager: constructed with a null channel
MInitSession ==
    /\ msgChannel = Null
    /\ msgCache = [i \in MessageIds |-> NoRef]
    /\ msgHeap = [r \in MsgRefs |-> UnallocatedMessage]
    /\ msgNext = 1
    /\ msgFetches = {}
    /\ mOut = MOut("init", Undef, NoRef, NoRef)

(* ---------------- Session: Client._patch and Client.destroy ---------------- *)

MaxSnapshotGuilds == 2
ClientGuildIds == {"g1", "g2"}

\* A READY payload; given = FALSE is a call without one.  The user is
\* NoAuthor, and a list NoList, when the payload does not carry it.
NoReady ==
    [given |-> FALSE, user |-> NoAuthor, session_id |-> Undef, guilds |-> NoList,
     private_channels |-> NoList, unavailable_guilds |-> NoList]

NoClientOut == [op |-> "init", given |-> NoReady, data |-> NoReady, raised |-> FALSE]

\* GuildManager._add on a cache of several guilds: merge into the entry of
\* the id when there is one, construct and store one otherwise.
GuildCache_add(guilds, data) ==
    [guilds EXCEPT ![data.id] = IF @.exists THEN Guild_patch(@, data)
                                ELSE Guild_new(data)]

RECURSIVE Client_patchGuilds_unforced(_, _)
Client_patchGuilds_unforced(guilds, items) ==
    IF items = <<>> THEN [guilds |-> guilds, items |-> <<>>]
    ELSE LET rest == Client_patchGuilds_unforced(GuildCache_add(guilds, Head(items)),
                                                 Tail(items))
         IN  [guilds |-> rest.guilds, items |-> <<Head(items)>> \o rest.items]

\* data.guilds.forEach: an entry whose guild is cached as unavailable is
\* written unavailable = false, then upserted.  Returns the cache and the
\* entries as the loop leaves them.
RECURSIVE Client_patchGuilds(_, _)
Client_patchGuilds(guilds, items) ==
    IF items = <<>> THEN [guilds |-> guilds, items |-> <<>>]
    ELSE LET guildData == Head(items)
             existing == guilds[guildData.id]
             forced == IF existing.exists /\ Truthy(existing.unavailable)
                       THEN [guildData EXCEPT !.unavailable = "false"]
                       ELSE guildData
             rest == Client_patchGuilds(GuildCache_add(guilds, forced), Tail(items))
         IN  [guilds |-> rest.guilds, items |-> <<forced>> \o rest.items]

\* data.unavailable_guilds.forEach: an id not cached yet gets a placeholder.
RECURSIVE Client_patchUnavailable(_, _)
Client_patchUnavailable(guilds, ids) ==
    IF ids = <<>> THEN guilds
    ELSE Client_patchUnavailable(
             IF guilds[Head(ids)].exists THEN guilds
             ELSE GuildCache_add(guilds, [NoData EXCEPT !.id = Head(ids),
                                                        !.unavailable = "true"]),
             Tail(ids))

\* Client._patch(data) on the session c and the user cache.
Client_patch(c, users, data) ==
    IF ~data.given THEN [client |-> c, users |-> users, data |-> data]
    ELSE
    LET added == Users_add(users, data.user)
        withUser == IF data.user # NoAuthor THEN [c EXCEPT !.user = added.ref] ELSE c
        withSession == IF Truthy(data.session_id)
                       THEN [withUser EXCEPT !.sessionId = data.session_id]
                       ELSE withUser
        merged == IF data.guilds.given
                  THEN Client_patchGuilds(withSession.guilds, data.guilds.items)
                  ELSE [guilds |-> withSession.guilds, items |-> <<>>]
        withChannels == IF data.private_channels.given
                        THEN withSession.channels
                                 \cup {data.private_channels.items[i] :
                                          i \in DOMAIN data.private_channels.items}
                        ELSE withSession.channels
        withPlaceholders == IF data.unavailable_guilds.given
                            THEN Client_patchUnavailable(merged.guilds,
                                                         data.unavailable_guilds.items)
                            ELSE merged.guilds
    IN  [client |-> [withSession EXCEPT !.guilds = withPlaceholders,
                                        !.channels = withChannels],
         users |-> IF data.user # NoAuthor THEN added.users ELSE users,
         data |-> IF data.guilds.given
                  THEN [data EXCEPT !.guilds = List(merged.items)] ELSE data]

\* The voice clean-up of Client.destroy: skipped on an empty table; an error
\* raised inside the try block is caught before adapters.clear() is reached.
Client_destroyVoice(table, raises) ==
    IF \A g \in BridgeGuilds : table[g] = NoMethods THEN table
    ELSE IF raises THEN table
    ELSE [g \in BridgeGuilds |-> NoMethods]

NoClient ==
    [user |-> NoRef, sessionId |-> Null,
     guilds |-> [i \in ClientGuildIds |-> NoGuild], channels |-> {}]

ClientPatch(data) ==
    LET r == Client_patch(client, Users, data)
    IN  /\ (data.given /\ data.user # NoAuthor /\ userCache[data.user.id] = NoRef)
               => userNext <= MaxRefs
        /\ client' = r.client
        /\ userCache' = r.users.cache
        /\ userHeap' = r.users.heap
        /\ userNext' = r.users.next
        /\ cOut' = [NoClientOut EXCEPT !.op = "patch", !.given = data, !.data = r.data]
        /\ UNCHANGED <<userFetches, uOut, gvars, bvars, mvars>>

\* Client.destroy(); raises: the voice clean-up raises an error.  ws.destroy
\* closes the connection.
ClientDestroy(raises) ==
    /\ raises => \E g \in BridgeGuilds : adapters[g] # NoMethods
    /\ wsOpen' = FALSE
    /\ adapters' = Client_destroyVoice(adapters, raises)
    /\ client' = NoClient
    /\ userCache' = [i \in UserIds |-> NoRef]
    /\ msgCache' = [i \in MessageIds |-> NoRef]
    /\ token' = NoToken
    /\ cOut' = [NoClientOut EXCEPT !.op = "destroy", !.raised = raises]
    /\ UNCHANGED <<userHeap, userNext, userFetches, uOut, gvars, factories, handles,
                   nextMethods, creators, vOut, msgChannel, msgHeap, msgNext,
                   msgFetches, mOut>>

ReadyGuildEntries ==
    {[NoData EXCEPT !.id = i, !.unavailable = f, !.name = n] :
        i \in ClientGuildIds, f \in {Undef, "true", "false"}, n \in {"A"}}

\* A snapshot lists a guild once.
ReadyGuildLists ==
    {q \in SeqsUpTo(ReadyGuildEntries, MaxSnapshotGuilds) :
        \A i, j \in DOMAIN q : q[i].id = q[j].id => i = j}

ReadyPayloads ==
    {[NoReady EXCEPT !.given = TRUE, !.guilds = l, !.unavailable_guilds = u] :
        l \in {NoList} \cup {List(q) : q \in ReadyGuildLists},
        u \in {NoList, List(<<"g2">>)}}
    \cup {[NoReady EXCEPT !.given = TRUE, !.user = a, !.session_id = s,
                          !.private_channels = p] :
             a \in {NoAuthor, AuthorPayload}, s \in {Undef, "s1"},
             p \in {NoList, List(<<"d1">>)}}
    \cup {NoReady}

\* A first READY: the session's user, its id, one guild and one DM channel.
FullReady ==
    [given |-> TRUE, user |-> AuthorPayload, session_id |-> "s1",
     guilds |-> List(<<[NoData EXCEPT !.name = "A"]>>),
     private_channels |-> List(<<"d1">>), unavailable_guilds |-> NoList]

CInit ==
    /\ client = NoClient
    /\ cOut = NoClientOut

Init == UInit /\ GInit /\ BInit /\ MInit /\ CInit
InitSession == UInit /\ GInit /\ BInit /\ MInitSession /\ CInit

NextUsers ==
    \/ \E data \in UserPayloads : UserAdd(data)
    \/ \E id \in UserIds, cache \in BOOLEAN, force \in BOOLEAN :
          UserFetchStart(id, cache, force)
    \/ \E t \in userFetches, data \in UserPayloads : UserFetchResolve(t, data)
    \/ \E t \in userFetches, status \in FetchStatuses : UserFetchReject(t, status)

\* guild merges in all their scalar variety
NextGuild ==
    \/ \E data \in GuildMergePayloads : GuildAdd(data)
    \/ \E e \in VoiceEventsFew : VoiceStateUpdate(e)

\* snapshots and incremental voice events in all their variety
NextVoiceStates ==
    \/ \E data \in GuildSnapshotPayloads : GuildAdd(data)
    \/ \E e \in VoiceEvents : VoiceStateUpdate(e)

\* the credential gate: every kind of token, one guild, the socket, sends
NextGating ==
    \/ \E tok \in Tokens : Login(tok)
    \/ SocketChanges
    \/ CreateVoiceDispatch("A")
    \/ \E f \in factories, shape \in MethodShapes : CreatorCall(f, shape)
    \/ \E a \in handles, payload \in VoicePayloads : SendPayload(a, payload)
    \/ \E a \in handles : Destroy(a)
    \/ OnVoiceStateUpdate([guild_id |-> "A", body |-> "d1"])
    \/ OnVoiceServerUpdate([guild_id |-> "A", body |-> "d1"])

\* routing: a bot token, two guilds, every inbound event
NextRouting ==
    \/ Login(BotToken)
    \/ \E g \in BridgeGuilds : CreateVoiceDispatch(g)
    \/ \E f \in factories, shape \in MethodShapes : CreatorCall(f, shape)
    \/ \E a \in handles : Destroy(a)
    \/ \E data \in BridgeEvents : OnVoiceStateUpdate(data)
    \/ \E data \in BridgeEvents : OnVoiceServerUpdate(data)

\* one channel's message cache: dispatches and fetches
NextMessages ==
    \/ \E data \in MessagePayloads : MessageAdd(data)
    \/ \E id \in MessageIds, cache \in BOOLEAN, force \in BOOLEAN :
          MessageFetchStart(id, cache, force)
    \/ \E t \in msgFetches, data \in MessagePayloads : MessageFetchResolve(t, data)
    \/ \E t \in msgFetches, status \in FetchStatuses : MessageFetchReject(t, status)

\* runs that work on the user cache or on a channel's message cache, one
\* manager per run
NextFetches ==
    \/ mOut.op = "init" /\ NextUsers
    \/ uOut.op = "init" /\ NextMessages

\* the guild cache: dispatches and fetches
NextGuildFetch ==
    \/ \E data \in GuildFetchedPayloads : GuildAdd(data)
    \/ \E cache \in BOOLEAN, force \in BOOLEAN : GuildFetchStart(cache, force)
    \/ \E t \in guildFetches, data \in GuildFetchedPayloads : GuildFetchResolve(t, data)
    \/ \E t \in guildFetches, status \in FetchStatuses : GuildFetchReject(t, status)

\* the user payloads of the runs that resolve
ResolvedUserPayloads == {d \in UserPayloads : d.discriminator = Undef}

\* resolve and resolveId on the user cache or on the guild cache, one
\* manager per run, between upserts, fetches and evictions
NextResolve ==
    \/ /\ gOut.op = "init"
       /\ \/ \E data \in ResolvedUserPayloads : UserAdd(data)
          \/ \E id \in UserIds, cache \in BOOLEAN : UserFetchStart(id, cache, TRUE)
          \/ \E t \in userFetches, data \in ResolvedUserPayloads :
                UserFetchResolve(t, data)
          \/ \E t \in userFetches : UserFetchReject(t, NotFound)
          \/ \E x \in UserResolvables : UserResolve(x)
          \/ \E x \in UserResolvables : UserResolveId(x)
    \/ /\ uOut.op = "init"
       /\ \/ \E data \in GuildFetchedPayloads : GuildAdd(data)
          \/ \E x \in GuildResolvables : GuildResolve(x)
          \/ \E x \in GuildResolvables : GuildResolveId(x)

\* creators obtained through the helper and through the guild's getter
NextHelper ==
    \/ Login(BotToken)
    \/ \E voice \in ClientVoices, g \in BridgeGuilds : HelperCreateVoiceDispatch(voice, g)
    \/ \E voice \in ClientVoices : GuildVoiceAdapterCreator(voice, "A")
    \/ \E f \in factories, shape \in MethodShapes : CreatorCall(f, shape)

\* the session-level message cache: dispatches and fetch calls
NextSession ==
    \/ \E data \in MessagePayloads : MessageAdd(data)
    \/ \E id \in MessageIds, cache \in BOOLEAN, force \in BOOLEAN :
          MessageFetchStart(id, cache, force)

\* guild merges that carry channels, in their variety
NextChannels == \E data \in GuildChannelPayloads : GuildAdd(data)

\* messages with an author next to upserts, forced fetches and evictions of
\* that author in the user cache
NextAuthors ==
    \/ \E data \in {d \in MessagePayloads :
                       d.author = AuthorPayload /\ d.channel_id = MessageChannel} :
          MessageAdd(data)
    \/ \E data \in ResolvedUserPayloads : UserAdd(data)
    \/ \E id \in UserIds : UserFetchStart(id, TRUE, TRUE)
    \/ \E t \in userFetches, data \in ResolvedUserPayloads : UserFetchResolve(t, data)
    \/ \E t \in userFetches : UserFetchReject(t, NotFound)

NextReady ==
    \/ \E data \in {d \in ReadyPayloads : d.user = NoAuthor /\ d.session_id = Undef
                                               /\ ~d.private_channels.given} :
          ClientPatch(data)
    \/ ClientDestroy(FALSE)

NextTeardown ==
    \/ Login(BotToken)
    \/ SocketChanges
    \/ CreateVoiceDispatch("A")
    \/ \E f \in factories : CreatorCall(f, [onVoiceStateUpdate |-> TRUE,
                                            onVoiceServerUpdate |-> TRUE])
    \/ ClientPatch(FullReady)
    \/ MessageAdd([id |-> "m1", content |-> "x", author |-> NoAuthor,
                   channel_id |-> Undef])
    \/ \E raises \in BOOLEAN : ClientDestroy(raises)

RacedMessagePayloads ==
    {d \in MessagePayloads : d.author = NoAuthor /\ d.channel_id = MessageChannel}

\* Fetches that suspend do so on a cache miss (force is left false); dispatch
\* upserts and other fetches run while they are suspended.
NextRace ==
    \/ mOut.op = "init" /\
          \/ \E data \in ResolvedUserPayloads : UserAdd(data)
          \/ \E id \in UserIds, cache \in BOOLEAN : UserFetchStart(id, cache, FALSE)
          \/ \E t \in userFetches, data \in ResolvedUserPayloads : UserFetchResolve(t, data)
          \/ \E t \in userFetches : UserFetchReject(t, NotFound)
    \/ uOut.op = "init" /\
          \/ \E data \in RacedMessagePayloads : MessageAdd(data)
          \/ \E id \in MessageIds, cache \in BOOLEAN : MessageFetchStart(id, cache, FALSE)
          \/ \E t \in msgFetches, data \in RacedMessagePayloads :
                MessageFetchResolve(t, data)
          \/ \E t \in msgFetches : MessageFetchReject(t, NotFound)

Next == NextRace \/ NextTeardown \/ NextReady \/ NextAuthors \/ NextChannels \/ NextSession \/ NextHelper \/ NextResolve \/ NextGuildFetch \/ NextFetches \/ NextMessages \/ NextUsers \/ NextGuild \/ NextVoiceStates \/ NextGating \/ NextRouting

Spec == Init /\ [][Next]_vars
SpecUsers == Init /\ [][NextUsers]_vars
SpecGuild == Init /\ [][NextGuild]_vars
SpecVoiceStates == Init /\ [][NextVoiceStates]_vars
SpecGating == Init /\ [][NextGating]_vars
SpecRouting == Init /\ [][NextRouting]_vars
SpecMessages == Init /\ [][NextMessages]_vars
SpecFetches == Init /\ [][NextFetches]_vars
SpecGuildFetch == Init /\ [][NextGuildFetch]_vars
SpecResolve == Init /\ [][NextResolve]_vars
SpecHelper == Init /\ [][NextHelper]_vars
SpecSession == InitSession /\ [][NextSession]_vars
SpecChannels == Init /\ [][NextChannels]_vars
SpecAuthors == Init /\ [][NextAuthors]_vars
SpecRace == Init /\ [][NextRace]_vars
SpecReady == Init /\ [][NextReady]_vars
SpecTeardown == InitSession /\ [][NextTeardown]_vars

(* ---------------- claims ---------------- *)

ScalarsMerged(before, after, data) ==
    /\ after.name = IF data.name # Undef THEN data.name ELSE before.name
    /\ after.icon = IF data.icon # Undef THEN data.icon ELSE before.icon
    /\ after.ownerId = IF data.owner_id # Undef THEN data.owner_id ELSE before.ownerId
    /\ after.memberCount = IF data.member_count # Undef THEN data.member_count
                           ELSE before.memberCount

\* the user ids listed in a voice_states array
ListedUsers(list) == {list.items[i].user_id : i \in DOMAIN list.items}
ListedChannels(list) == {list.items[i].id : i \in DOMAIN list.items}

\* the collections of a guild after a payload was merged into them
ListsMerged(before, after, data) ==
    /\ IF data.voice_states.given
       THEN {u \in VoiceUserIds : after.voiceStates[u].present}
               = ListedUsers(data.voice_states)
       ELSE after.voiceStates = before.voiceStates
    /\ IF data.channels.given
       THEN {c \in ChannelIds : after.channels[c].present}
               = {c \in ChannelIds : before.channels[c].present}
                    \cup ListedChannels(data.channels)
       ELSE after.channels = before.channels

\* C2: while a guild is unavailable, a guild merge whose payload does not
\* carry unavailable=false changes no field of the guild: name, icon, owner,
\* member count, channels and voice states stay as they are, every time.
C2_UnavailableMergeIsNoOp ==
    [][(/\ gOut'.op = "guildAdd" /\ GuildAdd(gOut'.data)
        /\ guild.exists /\ guild.unavailable = "true"
        /\ gOut'.data.unavailable # "false") => guild' = guild]_vars

\* an unavailable guild that holds data was handed a payload carrying a name,
\* both arrays and no unavailable=false
C2_Witness ==
    /\ gOut.op = "guildAdd" /\ gOut.pre = "true"
    /\ gOut.data.unavailable = Undef /\ gOut.data.name = "B"
    /\ gOut.data.channels.given /\ gOut.data.voice_states.given
    /\ guild.unavailable = "true" /\ guild.name = "A"
    /\ ~guild.voiceStates["u1"].present /\ ~guild.channels["c1"].present

\* C3: the payload that turns an available guild unavailable changes the
\* unavailable flag and nothing else, whatever else it carries; a guild first
\* seen as unavailable is constructed with no field merged.
C3_GoingUnavailableOnlyFlipsFlag ==
    [][(/\ gOut'.op = "guildAdd" /\ GuildAdd(gOut'.data)
        /\ gOut'.data.unavailable = "true")
         => /\ (guild.exists /\ guild.unavailable = "false")
                 => guild' = [guild EXCEPT !.unavailable = "true"]
            /\ ~guild.exists
                 => guild' = [NoGuild EXCEPT !.exists = TRUE,
                                             !.id = gOut'.data.id,
                                             !.unavailable = "true"]]_vars

\* an available guild was handed unavailable=true together with a name and
\* both arrays and is now unavailable, its earlier state still in place
C3_Witness ==
    /\ gOut.op = "guildAdd" /\ gOut.pre = "false"
    /\ gOut.data.unavailable = "true" /\ gOut.data.name = "A"
    /\ gOut.data.channels.given /\ gOut.data.voice_states.given
    /\ guild.unavailable = "true" /\ guild.name = "B"
    /\ ~guild.voiceStates["u1"].present /\ ~guild.channels["c1"].present

\* C4: an unavailable guild becomes available only in a guild merge whose
\* payload carries unavailable=false; that merge, and every merge into an
\* available guild that does not turn it unavailable, applies the payload's
\* fields and arrays.
C4_LeavesUnavailableOnlyByFalse ==
    [][/\ (guild.exists /\ guild.unavailable = "true"
            /\ guild'.unavailable # "true")
             => /\ gOut'.op = "guildAdd" /\ GuildAdd(gOut'.data)
                /\ gOut'.data.unavailable = "false"
       /\ (/\ gOut'.op = "guildAdd" /\ GuildAdd(gOut'.data) /\ guild.exists
           /\ \/ gOut'.data.unavailable = "false"
              \/ guild.unavailable = "false" /\ gOut'.data.unavailable = Undef)
            => /\ guild'.unavailable = "false"
               /\ ScalarsMerged(guild, guild', gOut'.data)
               /\ ListsMerged(guild, guild', gOut'.data)]_vars

\* an unavailable guild was handed unavailable=false with a name and a
\* voice_states array and is now available with both applied
C4_Witness ==
    /\ gOut.op = "guildAdd" /\ gOut.pre = "true"
    /\ gOut.data.unavailable = "false" /\ gOut.data.name = "A"
    /\ gOut.data.voice_states.given
    /\ guild.unavailable = "false" /\ guild.name = "A"
    /\ guild.voiceStates["u1"].present

\* C5: a voice update for this guild with channel_id null, for a user who has
\* an entry, removes that entry and leaves the other entries alone.
C5_LeaveRemovesEntry ==
    [][(/\ gOut'.op = "voiceUpdate" /\ VoiceStateUpdate(gOut'.ev)
        /\ gOut'.ev.guild_id = guild.id
        /\ gOut'.ev.user_id \in VoiceUserIds /\ gOut'.ev.channel_id = Null
        /\ guild.voiceStates[gOut'.ev.user_id].present)
         => /\ ~guild'.voiceStates[gOut'.ev.user_id].present
            /\ \A u \in VoiceUserIds \ {gOut'.ev.user_id} :
                  guild'.voiceStates[u] = guild.voiceStates[u]]_vars

\* a tracked user left: the entry is gone while the other user's remains
C5_Witness ==
    /\ gOut.op = "voiceUpdate" /\ gOut.ev.channel_id = Null /\ gOut.tracked
    /\ gOut.ev.user_id = "u1" /\ gOut.ev.guild_id = GuildId
    /\ ~guild.voiceStates["u1"].present
    /\ guild.voiceStates["u2"].present /\ guild.voiceStates["u2"].channelId = "c2"

\* C6: in every reachable state, whatever snapshot merges and incremental
\* voice updates produced it, every voice state stored in the guild's
\* collection has a channel id (its channelId is neither null nor undefined).
C6_StoredVoiceStateHasChannel ==
    \A u \in VoiceUserIds :
       guild.voiceStates[u].present
          => guild.voiceStates[u].channelId \notin {Null, Undef}

\* a credential is privileged when it is set and begins with "Bot "
PrivilegedCredential(tok) ==
    /\ Len(tok) >= 4
    /\ tok[1] = "B" /\ tok[2] = "o" /\ tok[3] = "t" /\ tok[4] = " "

\* the creator an adapter object came from
CreatorOf(a) == [kind |-> a.kind, guild |-> a.guild, credential |-> a.credential]

\* C7: the adapter object of a creator that was obtained under a credential
\* that is absent or does not begin with "Bot " returns false from
\* sendPayload, whatever the payload, and hands nothing to the connection's
\* send.
C7_GatedSendReturnsFalse ==
    [][(/\ vOut'.op = "send"
        /\ SendPayload(vOut'.handle, vOut'.given)
        /\ ~PrivilegedCredential(vOut'.handle.credential))
       => (vOut'.ret = "false" /\ vOut'.sent = <<>>)]_vars

C7_Witness ==
    /\ vOut.op = "send"
    /\ vOut.handle.credential = UserToken
    /\ token = UserToken
    /\ wsOpen
    /\ vOut.given.channel_id = "c1"
    /\ vOut.ret = "false"
    /\ vOut.sent = <<>>

\* C8: calling a creator obtained under a non-privileged credential returns
\* an adapter object and leaves the adapters table as it was, destroy of that
\* object leaves the table as it was, and no inbound voice event invokes a
\* methods object that was handed to such a creator.
C8_GatedCreatorIgnoresMethods ==
    [][/\ (/\ vOut'.op = "call"
           /\ \E shape \in MethodShapes : CreatorCall(CreatorOf(vOut'.handle), shape)
           /\ ~PrivilegedCredential(vOut'.handle.credential))
          => (adapters' = adapters /\ vOut'.ret = "adapter")
       /\ (/\ vOut'.op = "destroy"
           /\ Destroy(vOut'.handle)
           /\ ~PrivilegedCredential(vOut'.handle.credential))
          => (adapters' = adapters /\ handles' = handles)
       /\ (/\ vOut'.op \in {"onVoiceStateUpdate", "onVoiceServerUpdate"}
           /\ (OnVoiceStateUpdate(vOut'.data) \/ OnVoiceServerUpdate(vOut'.data)))
          => \A i \in 1..Len(vOut'.invoked) : \A a \in handles :
                a.methods = vOut'.invoked[i].methods
                   => PrivilegedCredential(a.credential)]_vars

C8_Witness ==
    /\ vOut.op = "onVoiceServerUpdate"
    /\ vOut.data.guild_id = "A"
    /\ vOut.invoked = <<>>
    /\ adapters["A"] = NoMethods
    /\ \E a \in handles : a.guild = "A" /\ a.credential = UserToken

\* C9: with methods objects registered for both guild A and guild B, a
\* voice-state or voice-server event of one of the two guilds invokes no
\* callback but the matching one of that guild's methods object, and invokes
\* it exactly once, with the event's data, when it is a function.
C9_RoutingIsolation ==
    [][\A g \in BridgeGuilds :
        (/\ vOut'.data.guild_id = g
         /\ \/ vOut'.op = "onVoiceStateUpdate" /\ OnVoiceStateUpdate(vOut'.data)
            \/ vOut'.op = "onVoiceServerUpdate" /\ OnVoiceServerUpdate(vOut'.data)
         /\ \A h \in BridgeGuilds : adapters[h].id # 0)
        => /\ \A i \in 1..Len(vOut'.invoked) :
                 vOut'.invoked[i] = [methods |-> adapters[g].id,
                                     callback |-> vOut'.op, data |-> vOut'.data]
           /\ adapters[g][vOut'.op] => Len(vOut'.invoked) = 1]_vars

C9_Witness ==
    /\ vOut.op = "onVoiceStateUpdate"
    /\ vOut.data.guild_id = "A"
    /\ adapters["A"].id # 0
    /\ adapters["B"].id # 0
    /\ adapters["B"].onVoiceStateUpdate
    /\ Len(vOut.invoked) = 1
    /\ vOut.invoked[1].methods = adapters["A"].id

\* C10: sendPayload of an adapter object from a creator obtained under a
\* privileged credential, called while the connection is open, hands the
\* connection's send exactly one envelope {op: 4, d: p'}, where p' is the
\* payload with self_mute and self_deaf null, returns true and leaves the
\* caller's payload as it was.
C10_OpenSendTransmitsCopy ==
    [][(/\ vOut'.op = "send"
        /\ SendPayload(vOut'.handle, vOut'.given)
        /\ PrivilegedCredential(vOut'.handle.credential)
        /\ wsOpen)
       => (/\ Len(vOut'.sent) = 1
           /\ vOut'.sent[1].op = 4
           /\ vOut'.sent[1].d = [guild_id |-> vOut'.given.guild_id,
                                 channel_id |-> vOut'.given.channel_id,
                                 self_mute |-> Null, self_deaf |-> Null]
           /\ vOut'.ret = "true"
           /\ vOut'.payload = vOut'.given)]_vars

C10_Witness ==
    /\ vOut.op = "send"
    /\ vOut.handle.credential = BotToken
    /\ wsOpen
    /\ vOut.ret = "true"
    /\ vOut.given.self_mute = "true"
    /\ vOut.payload.self_mute = "true"
    /\ Len(vOut.sent) = 1
    /\ vOut.sent[1].d.self_mute = Null

\* C11: sendPayload of an adapter object from a creator obtained under a
\* privileged credential, called while the connection is not open, returns
\* false, hands nothing to the connection's send, and leaves the adapters
\* table and the rest of the bridge as they were.
C11_ClosedSendReturnsFalse ==
    [][(/\ vOut'.op = "send"
        /\ SendPayload(vOut'.handle, vOut'.given)
        /\ PrivilegedCredential(vOut'.handle.credential)
        /\ ~wsOpen)
       => (/\ vOut'.ret = "false"
           /\ vOut'.sent = <<>>
           /\ vOut'.payload = vOut'.given
           /\ adapters' = adapters
           /\ handles' = handles /\ factories' = factories
           /\ wsOpen' = wsOpen /\ token' = token)]_vars

C11_Witness ==
    /\ vOut.op = "send"
    /\ vOut.handle.credential = BotToken
    /\ vOut.handle.kind = "real"
    /\ ~wsOpen
    /\ adapters["A"].id = vOut.handle.methods
    /\ vOut.ret = "false"
    /\ vOut.sent = <<>>

\* the methods objects handed to privileged creators of guild g so far
SuppliedTo(g) ==
    {a.methods : a \in {h \in handles : h.guild = g /\ PrivilegedCredential(h.credential)}}

\* C12: calling a privileged creator for a guild that already has an entry
\* replaces that entry by the methods object just supplied and touches no
\* other guild's entry; an inbound event of a guild invokes no methods object
\* but the one most recently supplied for that guild.
C12_LatestRegistrationWins ==
    [][/\ (/\ vOut'.op = "call"
           /\ \E shape \in MethodShapes : CreatorCall(CreatorOf(vOut'.handle), shape)
           /\ PrivilegedCredential(vOut'.handle.credential)
           /\ adapters[vOut'.guild].id # 0)
          => (/\ adapters'[vOut'.guild].id = vOut'.handle.methods
              /\ \A g \in BridgeGuilds \ {vOut'.guild} : adapters'[g] = adapters[g])
       /\ (/\ vOut'.op \in {"onVoiceStateUpdate", "onVoiceServerUpdate"}
           /\ (OnVoiceStateUpdate(vOut'.data) \/ OnVoiceServerUpdate(vOut'.data)))
          => (/\ Len(vOut'.invoked) <= 1
              /\ \A i \in 1..Len(vOut'.invoked) :
                    /\ vOut'.invoked[i].methods \in SuppliedTo(vOut'.data.guild_id)
                    /\ \A m \in SuppliedTo(vOut'.data.guild_id) :
                          m <= vOut'.invoked[i].methods)]_vars

C12_Witness ==
    /\ vOut.op = "onVoiceServerUpdate"
    /\ vOut.data.guild_id = "A"
    /\ SuppliedTo("A") = {1, 2}
    /\ Len(vOut.invoked) = 1
    /\ vOut.invoked[1].methods = 2

\* C13: destroy of an adapter object that a privileged creator returned
\* removes its guild's entry, leaves every other entry alone and invokes no
\* callback; an entry that is absent comes back only when a creator is called
\* for that guild, and while it is absent no inbound event of that guild
\* invokes a callback.
C13_DestroyUnregisters ==
    [][/\ (/\ vOut'.op = "destroy"
           /\ Destroy(vOut'.handle)
           /\ PrivilegedCredential(vOut'.handle.credential))
          => (/\ adapters'[vOut'.guild] = NoMethods
              /\ \A g \in BridgeGuilds \ {vOut'.guild} : adapters'[g] = adapters[g]
              /\ vOut'.invoked = <<>>
              /\ handles' = handles /\ factories' = factories)
       /\ \A g \in BridgeGuilds :
             /\ (adapters[g].id = 0 /\ adapters'[g].id # 0)
                   => (vOut'.op = "call" /\ vOut'.guild = g)
             /\ (/\ adapters[g].id = 0
                 /\ vOut'.data.guild_id = g
                 /\ (OnVoiceStateUpdate(vOut'.data) \/ OnVoiceServerUpdate(vOut'.data)))
                   => vOut'.invoked = <<>>]_vars

C13_Witness ==
    /\ vOut.op = "onVoiceServerUpdate"
    /\ vOut.data.guild_id = "A"
    /\ SuppliedTo("A") # {}
    /\ adapters["A"] = NoMethods
    /\ adapters["B"].id # 0
    /\ vOut.invoked = <<>>

\* C14: an inbound voice-state or voice-server event that carries no guild
\* id, or whose guild has no entry in the adapters table, invokes no callback
\* and leaves the bridge as it was.
C14_UnroutableEventIsDropped ==
    [][(/\ \/ vOut'.op = "onVoiceStateUpdate" /\ OnVoiceStateUpdate(vOut'.data)
           \/ vOut'.op = "onVoiceServerUpdate" /\ OnVoiceServerUpdate(vOut'.data)
        /\ \/ vOut'.data.guild_id \in {Undef, Null}
           \/ AdapterOf(adapters, vOut'.data.guild_id).id = 0)
       => (/\ vOut'.invoked = <<>>
           /\ vOut'.ret = Undef
           /\ adapters' = adapters /\ handles' = handles
           /\ factories' = factories /\ nextMethods' = nextMethods
           /\ token' = token /\ wsOpen' = wsOpen)]_vars

C14_Witness ==
    /\ vOut.op = "onVoiceStateUpdate"
    /\ vOut.data.guild_id = Undef
    /\ adapters["A"].id # 0
    /\ adapters["A"].onVoiceStateUpdate
    /\ adapters["B"].id = 0
    /\ vOut.invoked = <<>>

\* C15: for a guild with a registered methods object, an inbound voice-state
\* or voice-server event is handed to its callback exactly once, within the
\* handler's own step and with its own data, whatever arrived before; no
\* other step (a creator call included) invokes a callback, so an event that
\* found no entry is never delivered later.
C15_ForwardedOnceOnArrival ==
    [][/\ \A g \in BridgeGuilds :
             (/\ vOut'.data.guild_id = g
              /\ \/ vOut'.op = "onVoiceStateUpdate" /\ OnVoiceStateUpdate(vOut'.data)
                 \/ vOut'.op = "onVoiceServerUpdate" /\ OnVoiceServerUpdate(vOut'.data)
              /\ adapters[g].id # 0
              /\ adapters[g][vOut'.op])
             => vOut'.invoked = <<[methods |-> adapters[g].id,
                                   callback |-> vOut'.op, data |-> vOut'.data]>>
       /\ vOut'.op \notin {"onVoiceStateUpdate", "onVoiceServerUpdate"}
             => vOut'.invoked = <<>>
       /\ \A i \in 1..Len(vOut'.invoked) :
             /\ vOut'.invoked[i].data = vOut'.data
             /\ vOut'.invoked[i].callback = vOut'.op]_vars

C15_Witness ==
    /\ vOut.op = "onVoiceServerUpdate"
    /\ vOut.data = [guild_id |-> "B", body |-> "d2"]
    /\ adapters["B"].id # 0
    /\ ~adapters["B"].onVoiceStateUpdate
    /\ vOut.invoked = <<[methods |-> adapters["B"].id,
                         callback |-> "onVoiceServerUpdate", data |-> vOut.data]>>

\* C16: fetch returns the cached instance without a remote read only when
\* the cache option is true, force is false and the id is cached; in every
\* other case it issues a remote read.
C16_CacheHitOnlyWithUseCache ==
    [][(/\ uOut'.op \in {"fetchHit", "fetchStart"}
        /\ UserFetchStart(uOut'.id, uOut'.cache, uOut'.force))
       => (uOut'.op = "fetchHit"
             <=> (uOut'.cache /\ ~uOut'.force /\ userCache[uOut'.id] # NoRef))]_vars

\* C17: on the user cache and on a message cache, a fetch that stores its
\* result (force set, cache option left true) and is answered not-found
\* removes the id from the cache and yields null without an error, so that
\* resolve of the id gives null afterwards.
C17_FetchMissEvicts ==
    [][/\ \A t \in userFetches :
             (t.cache /\ UserFetchReject(t, NotFound))
             => (/\ uOut'.op = "fetchMiss"
                 /\ uOut'.ret = NoRef
                 /\ uOut'.error = 0
                 /\ UserManager_resolve(userCache', t.id) = NoRef)
       /\ \A t \in msgFetches :
             (t.cache /\ MessageFetchReject(t, NotFound))
             => (/\ mOut'.op = "fetchMiss"
                 /\ mOut'.ret = NoRef
                 /\ mOut'.error = NoError
                 /\ MessageManager_resolve(msgCache', t.id) = NoRef)]_vars

C17_Witness ==
    /\ mOut.op = "fetchMiss"
    /\ mOut.cache
    /\ mOut.pre # NoRef
    /\ msgHeap[mOut.pre].content = "x"
    /\ MessageManager_resolve(msgCache, mOut.id) = NoRef

\* C19: when the remote read of a fetch fails with a status other than
\* not-found, fetch throws that very error and the cache, its keys and the
\* fields of every instance, is as it was before.
C19_OtherFailuresPropagate ==
    [][/\ \A t \in userFetches, status \in FetchStatuses \ {NotFound} :
             UserFetchReject(t, status)
             => (/\ uOut'.op = "fetchThrow"
                 /\ uOut'.error = status
                 /\ userCache' = userCache
                 /\ userHeap' = userHeap)
       /\ \A t \in msgFetches, status \in FetchStatuses \ {NotFound} :
             MessageFetchReject(t, status)
             => (/\ mOut'.op = "fetchThrow"
                 /\ mOut'.error = HttpError(status)
                 /\ msgCache' = msgCache
                 /\ msgHeap' = msgHeap
                 /\ userCache' = userCache
                 /\ userHeap' = userHeap)]_vars

C19_Witness ==
    /\ uOut.op = "fetchThrow"
    /\ uOut.error = 500
    /\ uOut.pre # NoRef
    /\ userCache[uOut.id] = uOut.pre
    /\ userHeap[uOut.pre].username = "b"

\* C20: a fetch with the cache option false whose remote read succeeds
\* returns an entity built from the remote data and leaves the cache as it
\* was: no entry is added for the id, and an instance already cached under
\* it is neither replaced nor changed.
C20_UncachedFetchLeavesCache ==
    [][/\ \A t \in userFetches, data \in UserPayloads :
             (~t.cache /\ UserFetchResolve(t, data))
             => (/\ uOut'.built = User_new(data)
                 /\ userCache' = userCache
                 /\ userHeap' = userHeap)
       /\ \A t \in msgFetches, data \in MessagePayloads :
             (~t.cache /\ MessageFetchResolve(t, data))
             => (/\ mOut'.built = Message_new(data, msgChannel, Users).msg
                 /\ mOut'.error = NoError
                 /\ msgCache' = msgCache
                 /\ msgHeap' = msgHeap)]_vars

C20_Witness ==
    /\ mOut.op = "fetchResolve"
    /\ ~mOut.cache
    /\ mOut.pre # NoRef
    /\ msgCache[mOut.id] = mOut.pre
    /\ msgHeap[mOut.pre].content = "x"
    /\ mOut.built.content = "y"

\* C18: on the guild cache as on the user cache, and whatever the fetch
\* options were, a remote read answered not-found leaves the id out of the
\* cache and makes fetch yield null instead of throwing.
C18_NotFoundEvictsEverywhere ==
    [][/\ \A t \in guildFetches :
             GuildFetchReject(t, NotFound)
             => (gOut'.op = "fetchMiss" /\ gOut'.error = 0 /\ ~guild'.exists)
       /\ \A t \in userFetches :
             UserFetchReject(t, NotFound)
             => (/\ uOut'.op = "fetchMiss" /\ uOut'.error = 0
                 /\ userCache'[t.id] = NoRef)]_vars

\* C21: resolve gives back the very instance it was handed, and for an id
\* the cached instance or null; it starts no remote read and leaves the
\* cache alone.  resolveId gives the id of an instance and the id itself for
\* an id, so resolveId(resolve(id)) = id for every cached id.  On the user
\* cache and on the guild cache.
C21_ResolveIsALookup ==
    [][/\ uOut'.op = "resolve" =>
            /\ uOut'.arg.kind = "instance" => uOut'.ret = uOut'.arg.ref
            /\ uOut'.arg.kind = "id" =>
                  uOut'.ret = (IF uOut'.arg.id \in UserIds
                               THEN userCache[uOut'.arg.id] ELSE NoRef)
            /\ UNCHANGED <<userCache, userHeap, userFetches>>
       /\ uOut'.op = "resolveId" =>
            /\ uOut'.arg.kind = "instance" => uOut'.rid = userHeap[uOut'.arg.ref].id
            /\ uOut'.arg.kind = "id" => uOut'.rid = uOut'.arg.id
            /\ UNCHANGED <<userCache, userHeap, userFetches>>
       /\ \A id \in UserIds :
            userCache'[id] # NoRef =>
               UserManager_resolveId(userHeap',
                   ByInstance(UserManager_resolveAny(userCache', ById(id)))) = id
       /\ gOut'.op = "resolve" =>
            /\ gOut'.arg.kind = "instance" => gOut'.ret = gOut'.arg.inst
            /\ gOut'.arg.kind = "id" =>
                  gOut'.ret = (IF guild.exists /\ gOut'.arg.id = guild.id
                               THEN guild ELSE NoGuild)
            /\ UNCHANGED <<guild, guildFetches>>
       /\ gOut'.op = "resolveId" =>
            /\ gOut'.arg.kind = "instance" => gOut'.rid = gOut'.arg.inst.id
            /\ gOut'.arg.kind = "id" => gOut'.rid = gOut'.arg.id
            /\ UNCHANGED <<guild, guildFetches>>
       /\ guild'.exists =>
            GuildManager_resolveId(
                GuildByInstance(GuildManager_resolve(guild', GuildById(guild'.id))))
              = guild'.id]_vars

\* an instance that was evicted from the user cache is resolved to itself
\* while the cache holds a newer instance, and its id is resolved from it
C21_Witness ==
    /\ uOut.op = "resolve" /\ uOut.arg.kind = "instance"
    /\ uOut.ret = uOut.arg.ref /\ userCache["1"] \notin {NoRef, uOut.ret}

\* C22: a merge whose payload carries content sets the message's content to
\* it; a merge whose payload omits content (or carries null) leaves the
\* content of an existing message as it was, and gives a new message the
\* empty content; nothing else changes a message's content.  So the content
\* is always that of the most recent payload that carried one.
C22_ContentSurvivesPartialMerges ==
    [][/\ (mOut'.op \in {"add", "fetchResolve"} /\ mOut'.ret # NoRef) =>
            msgHeap'[mOut'.ret].content =
                IF mOut'.content \notin {Undef, Null} THEN mOut'.content
                ELSE IF mOut'.pre # NoRef THEN msgHeap[mOut'.ret].content
                ELSE ""
       /\ \A r \in MsgRefs :
            (mOut'.op \notin {"add", "fetchResolve"} \/ r # mOut'.ret) =>
                msgHeap'[r].content = msgHeap[r].content]_vars

\* a cached message whose content came from an earlier payload has just
\* merged a payload without content
C22_Witness ==
    /\ mOut.op = "add" /\ mOut.pre # NoRef /\ mOut.ret = mOut.pre
    /\ mOut.content = Undef /\ msgHeap[mOut.ret].content = "y"

C25_NoMergeRaises ==
    mOut.op = "add" => mOut.error = NoError

\* C26: a voice update that carries no user id, or whose guild id is not
\* the id of the guild it reaches, changes nothing of that guild: its
\* voice-state collection and every stored voice state stay as they were.
C26_ForeignVoiceUpdateIgnored ==
    [][(/\ gOut'.op = "voiceUpdate" /\ VoiceStateUpdate(gOut'.ev)
        /\ \/ gOut'.ev.user_id \in {Undef, Null}
           \/ gOut'.ev.guild_id # guild.id)
         => guild' = guild]_vars

\* a leave event of another guild reached the guild while the user it names
\* is tracked there: the user's entry is still in place
C26_Witness ==
    /\ gOut.op = "voiceUpdate" /\ gOut.ev.guild_id = "g2"
    /\ gOut.ev.user_id = "u1" /\ gOut.ev.channel_id = Null /\ gOut.tracked
    /\ guild.voiceStates["u1"].present

\* C27: a voice update for this guild whose channel id is not null merges
\* into the voice state of a tracked user in place (no voice state is
\* constructed, the fields the event omits keep their values), and for an
\* untracked user constructs one voice state and inserts it under that user
\* id; no other entry changes.
C27_JoinMergesOrInserts ==
    [][(/\ gOut'.op = "voiceUpdate" /\ VoiceStateUpdate(gOut'.ev)
        /\ gOut'.ev.guild_id = guild.id
        /\ gOut'.ev.user_id \in VoiceUserIds /\ gOut'.ev.channel_id # Null)
         => LET u == gOut'.ev.user_id
                before == guild.voiceStates[u]
                after == guild'.voiceStates[u]
            IN  /\ after.present
                /\ \A v \in VoiceUserIds \ {u} :
                      guild'.voiceStates[v] = guild.voiceStates[v]
                /\ IF before.present
                   THEN /\ gOut'.made = {}
                        /\ after.channelId = IF gOut'.ev.channel_id # Undef
                                             THEN gOut'.ev.channel_id
                                             ELSE before.channelId
                        /\ after.selfMute = IF gOut'.ev.self_mute # Undef
                                            THEN gOut'.ev.self_mute
                                            ELSE before.selfMute
                   ELSE gOut'.made = {u}]_vars

\* a tracked, muted user moved to another channel with an event that carries
\* no mute flag: the entry has the new channel and is still muted
C27_Witness ==
    /\ gOut.op = "voiceUpdate" /\ gOut.tracked /\ gOut.made = {}
    /\ gOut.ev = [guild_id |-> GuildId, user_id |-> "u1", channel_id |-> "c2",
                  self_mute |-> Undef]
    /\ guild.voiceStates["u1"] =
          [present |-> TRUE, channelId |-> "c2", selfMute |-> "true"]

\* C28: when a guild that is available (or a new guild, or one the payload
\* turns available) merges a payload carrying a voice_states list, the users
\* with an entry afterwards are exactly the users the list names, whatever
\* the collection held before.
C28_SnapshotReplacesVoiceStates ==
    [][(/\ gOut'.op = "guildAdd" /\ GuildAdd(gOut'.data)
        /\ gOut'.data.voice_states.given
        /\ IF gOut'.data.unavailable # Undef
           THEN gOut'.data.unavailable = "false"
           ELSE ~guild.exists \/ guild.unavailable = "false")
         => {u \in VoiceUserIds : guild'.voiceStates[u].present}
               = ListedUsers(gOut'.data.voice_states)]_vars

\* an available guild that tracked users merged a list naming only u2: u1
\* has no entry any more
C28_Witness ==
    /\ gOut.op = "guildAdd" /\ gOut.pre = "false" /\ gOut.tracked
    /\ gOut.data.voice_states = List(<<VoiceEntry("u2", "c1", Undef)>>)
    /\ ~guild.voiceStates["u1"].present /\ guild.voiceStates["u2"].present

\* a guild merge that the availability gate lets through
MergeApplied ==
    /\ gOut'.op = "guildAdd" /\ GuildAdd(gOut'.data)
    /\ IF gOut'.data.unavailable # Undef
       THEN gOut'.data.unavailable = "false"
       ELSE ~guild.exists \/ guild.unavailable = "false"

\* the items of a channels array that name the channel c
ItemsFor(list, c) == SelectSeq(list.items, LAMBDA d : d.id = c)

\* C29: a guild merge carrying a channels list leaves every listed channel
\* in the guild's channel cache; a channel it constructs belongs to the
\* guild the item names, and to this guild when the item names none; a
\* channel cached before and absent from the list stays as it was.
C29_ChannelsAreUpsertedNeverRemoved ==
    [][(MergeApplied /\ gOut'.data.channels.given)
         => \A c \in ChannelIds :
               IF c \in ListedChannels(gOut'.data.channels)
               THEN /\ guild'.channels[c].present
                    /\ guild'.channels[c].guild_id =
                          IF guild.channels[c].present THEN guild.channels[c].guild_id
                          ELSE IF Truthy(ItemsFor(gOut'.data.channels, c)[1].guild_id)
                          THEN ItemsFor(gOut'.data.channels, c)[1].guild_id
                          ELSE guild'.id
               ELSE guild'.channels[c] = guild.channels[c]]_vars

\* a guild that cached c2 merged a list naming only c1, without a guild id:
\* c1 is cached for this guild and c2 is still cached
C29_Witness ==
    /\ gOut.op = "guildAdd" /\ gOut.pre = "false"
    /\ ListedChannels(gOut.data.channels) = {"c1"}
    /\ gOut.data.channels.items[1].guild_id = Undef
    /\ guild.channels["c1"].present /\ guild.channels["c1"].guild_id = GuildId
    /\ guild.channels["c2"].present /\ guild.channels["c2"].type = 7

\* C30: after every step the type name of each cached channel is the name
\* the enumeration gives its numeric type, UNKNOWN when it has none; a merge
\* whose items for a cached channel omit the type keeps its type and its
\* type name.
C30_TypeNameFollowsType ==
    [][/\ \A c \in ChannelIds :
            guild'.channels[c].present =>
               guild'.channels[c].typeName =
                  IF \E key \in DOMAIN CHANNEL_TYPES :
                        CHANNEL_TYPES[key] = guild'.channels[c].type
                  THEN CHOOSE key \in DOMAIN CHANNEL_TYPES :
                          CHANNEL_TYPES[key] = guild'.channels[c].type
                  ELSE "UNKNOWN"
       /\ (MergeApplied /\ gOut'.data.channels.given)
            => \A c \in ChannelIds :
                  (/\ guild.channels[c].present
                   /\ \A i \in DOMAIN gOut'.data.channels.items :
                         gOut'.data.channels.items[i].id = c
                            => gOut'.data.channels.items[i].type = NoType)
                    => /\ guild'.channels[c].type = guild.channels[c].type
                       /\ guild'.channels[c].typeName = guild.channels[c].typeName]_vars

\* a voice channel merged a payload that renames it and omits the type: it
\* is still GUILD_VOICE
C30_Witness ==
    /\ gOut.op = "guildAdd" /\ gOut.pre = "false"
    /\ gOut.data.channels =
          List(<<[id |-> "c2", guild_id |-> Undef, type |-> NoType,
                  name |-> "general"]>>)
    /\ guild.channels["c2"] =
          [present |-> TRUE, guild_id |-> GuildId, type |-> 2, name |-> "general",
           typeName |-> "GUILD_VOICE"]

\* C31: in every reachable state the author of each cached message is the
\* instance the user cache holds for the author's id, also after that user
\* was evicted by a not-found fetch and upserted again.
C31_AuthorIsTheCachedUser ==
    \A id \in MessageIds :
        (msgCache[id] # NoRef /\ msgHeap[msgCache[id]].author # NoRef)
            => LET a == msgHeap[msgCache[id]].author
               IN  userCache[userHeap[a].id] = a

ListedGuildIds(data) ==
    {data.guilds.items[k].id : k \in DOMAIN data.guilds.items}
        \cup {data.unavailable_guilds.items[k] : k \in DOMAIN data.unavailable_guilds.items}

\* C32: after Client._patch has applied a snapshot that carries a guilds list,
\* the ids held by the guild cache are exactly the ids the snapshot lists.
C32_SnapshotRebuildsGuilds ==
    [][(ClientPatch(cOut'.given) /\ cOut'.given.guilds.given)
          => {i \in ClientGuildIds : client'.guilds[i].exists}
                 = ListedGuildIds(cOut'.given)]_vars

\* C33: when Client._patch applies a snapshot, each entry of its guilds list
\* whose guild is cached as unavailable is written unavailable = false in the
\* caller's payload, and the guild ends available with the entry's fields
\* merged, whatever the entry said about availability.
C33_CachedUnavailableForced ==
    [][(ClientPatch(cOut'.given) /\ cOut'.given.guilds.given)
          => \A k \in DOMAIN cOut'.given.guilds.items :
                LET e == cOut'.given.guilds.items[k]
                IN  (client.guilds[e.id].exists /\ Truthy(client.guilds[e.id].unavailable))
                       => /\ cOut'.data.guilds.items[k].unavailable = "false"
                          /\ client'.guilds[e.id].unavailable = "false"
                          /\ client'.guilds[e.id].name = e.name]_vars

C33_Witness ==
    /\ cOut.op = "patch"
    /\ \E k \in DOMAIN cOut.given.guilds.items :
          /\ cOut.given.guilds.items[k].unavailable = "true"
          /\ cOut.data.guilds.items[k].unavailable = "false"
          /\ client.guilds[cOut.given.guilds.items[k].id].unavailable = "false"
          /\ client.guilds[cOut.given.guilds.items[k].id].name = "A"

\* C34: a cache holds one instance per id under every interleaving: a fetch
\* with the cache option true that resumes when the id is cached (a dispatch
\* upsert or another fetch created it meanwhile) merges into that instance
\* and returns it; no new instance is constructed and the cache entry stays.
C34_ResumedFetchKeepsInstance ==
    [][/\ (uOut'.op = "fetchResolve" /\ userCache[uOut'.id] # NoRef)
             => /\ uOut'.ret = userCache[uOut'.id]
                /\ userCache' = userCache
                /\ userNext' = userNext
       /\ (mOut'.op = "fetchResolve" /\ mOut'.cache /\ msgCache[mOut'.id] # NoRef)
             => /\ mOut'.ret = msgCache[mOut'.id]
                /\ msgCache' = msgCache
                /\ msgNext' = msgNext
       /\ \A id \in UserIds :
             userCache'[id] # NoRef => userHeap'[userCache'[id]].id = id]_vars

C34_Witness ==
    /\ uOut.op = "fetchResolve"
    /\ uOut.pre # NoRef
    /\ uOut.ret = uOut.pre
    /\ userCache[uOut.id] = uOut.pre
    /\ userNext = 2

C36_GatingFollowsActiveCredential ==
    [][vOut'.op = "send"
          => /\ vOut'.sent # <<>> => PrivilegedCredential(token)
             /\ (PrivilegedCredential(token) /\ wsOpen) => vOut'.sent # <<>>]_vars

\* C37: destroy() of an adapter whose handler pair is no longer the one
\* registered for its guild leaves the registered pair in the table.
C37_DestroyKeepsNewerAdapter ==
    [][(vOut'.op = "destroy" /\ adapters[vOut'.guild].id # vOut'.handle.methods)
          => adapters'[vOut'.guild] = adapters[vOut'.guild]]_vars

\* C38: sendPayload of an adapter made by a privileged factory transmits one
\* envelope and returns true exactly when the connection is open, whether
\* its handler pair is registered, was removed by destroy() or was replaced
\* by a newer adapter's pair.
C38_SendDependsOnConnectionOnly ==
    [][(vOut'.op = "send" /\ vOut'.kind = "real")
          => /\ vOut'.ret = IF wsOpen THEN "true" ELSE "false"
             /\ Len(vOut'.sent) = IF wsOpen THEN 1 ELSE 0]_vars

C38_Witness ==
    /\ vOut.op = "send"
    /\ vOut.kind = "real"
    /\ vOut.ret = "true"
    /\ Len(vOut.sent) = 1
    /\ adapters[vOut.guild].id # vOut.handle.methods

\* C39: a voice update for a user of the guild it reaches is applied while
\* the guild is unavailable as it is otherwise: channel_id null removes the
\* user's entry, any other event leaves an entry for the user, with the
\* event's channel when it names one and the stored channel when the entry
\* existed and the event names none; the guild stays unavailable.
C39_VoiceUpdatesIgnoreAvailability ==
    [][(/\ gOut'.op = "voiceUpdate"
        /\ Truthy(guild.unavailable)
        /\ gOut'.ev.user_id \in VoiceUserIds
        /\ gOut'.ev.guild_id = guild.id)
          => LET old == guild.voiceStates[gOut'.ev.user_id]
                 new == guild'.voiceStates[gOut'.ev.user_id]
                 channel == gOut'.ev.channel_id
             IN  /\ guild'.unavailable = guild.unavailable
                 /\ channel = Null => ~new.present
                 /\ channel # Null => new.present
                 /\ channel \notin {Undef, Null} => new.channelId = channel
                 /\ (channel = Undef /\ old.present) => new.channelId = old.channelId
                 /\ gOut'.made = IF channel # Null /\ ~old.present
                                 THEN {gOut'.ev.user_id} ELSE {}]_vars

\* a tracked user left and another user joined while the guild was
\* unavailable
C39_Witness ==
    /\ gOut.op = "voiceUpdate"
    /\ gOut.pre = "true"
    /\ guild.unavailable = "true"
    /\ gOut.tracked
    /\ gOut.ev.channel_id = Null
    /\ gOut.ev.guild_id = guild.id
    /\ ~guild.voiceStates[gOut.ev.user_id].present
    /\ \E u \in VoiceUserIds : guild.voiceStates[u].present

SessionCleared ==
    /\ token = NoToken
    /\ client = NoClient
    /\ \A i \in UserIds : userCache[i] = NoRef
    /\ \A i \in MessageIds : msgCache[i] = NoRef
    /\ \A g \in BridgeGuilds : adapters[g] = NoMethods

\* C40: when Client.destroy() has returned, the token, the user and the
\* session id are null, the session's guild, channel, user and message
\* caches are empty and the bridge's adapters table is empty, also when the
\* voice clean-up raised an error; a destroy() of a session in that state
\* leaves it in that state.
C40_DestroyClearsSession ==
    [][(\E raises \in BOOLEAN : ClientDestroy(raises))
          => /\ token' = NoToken
             /\ client'.user = NoRef
             /\ client'.sessionId = Null
             /\ \A i \in ClientGuildIds : ~client'.guilds[i].exists
             /\ client'.channels = {}
             /\ \A i \in UserIds : userCache'[i] = NoRef
             /\ \A i \in MessageIds : msgCache'[i] = NoRef
             /\ \A g \in BridgeGuilds : adapters'[g] = NoMethods
             /\ SessionCleared => SessionCleared']_vars
====
